---- MODULE Spec2Model ----
(***************************************************************************)
(* A model of the zoo simulation core: the tile grid (WorldGrid), the      *)
(* placement and line utilities (collision), and the entity store with    *)
(* its component registry (EntityManager, Entity).                        *)
(*                                                                         *)
(* Every operation of the program is one action; the last call, its       *)
(* arguments and its return value are recorded in the variable `call`.    *)
(* JavaScript objects that are shared by reference (tile arrays, entity    *)
(* objects) live in stores indexed by a reference number.                 *)
(***************************************************************************)
EXTENDS Integers, Sequences, FiniteSets, TLC

(***************************************************************************)
(* Bounds of the model.                                                    *)
(***************************************************************************)
GridW == 2
GridH == 2
MaxGridCalls == 2
MaxEditedTiles == 2
MaxCoord == 2
MaxGenerated == 1
MaxManualCalls == 1
MaxSearch == 2
MaxNow == 3
MaxFrames == 3
TallW == 2
TallH == 3
MaxReach == 3

VARIABLES
  entities,    \* EntityManager.entities: id |-> Entity [id, components, isActive]
  componentRegistry,  \* EntityManager.componentRegistry: type |-> set of ids
  generated,   \* number of ids generateEntityId has produced
  manualCalls, \* number of calls made on the registry or on an entity by hand
  tileStore,   \* reference |-> TileData[][]: every tiles array allocated
  grids,       \* the WorldGrid objects [width, height, tiles (a reference)]:
               \* grids[1] is the game's grid, grids[2] the last deserialized one
  gridCalls,   \* number of mutating grid calls made so far
  isRunning,   \* Game.isRunning
  isPaused,    \* Game.gameState.isPaused
  timeScale,   \* Game.gameState.timeScale
  currentTime, \* Game.gameState.currentTime, in thousandths of a second
  lastUpdateTime,   \* Game.lastUpdateTime, in milliseconds
  animationFrameId, \* Game.animationFrameId: NoFrame or a request id
  now,         \* what performance.now() returns, in milliseconds
  frames,      \* the request ids whose gameLoop callback the browser still holds
  frameCount,  \* number of ids requestAnimationFrame has handed out
  call         \* the last call: [op, ..arguments.., ret]

gridVars == <<tileStore, grids, gridCalls>>
entityVars == <<entities, componentRegistry, generated, manualCalls>>
gameVars == <<isRunning, isPaused, timeScale, currentTime, lastUpdateTime,
              animationFrameId, now, frames, frameCount>>
vars == <<entities, componentRegistry, generated, manualCalls, tileStore, grids, gridCalls,
          isRunning, isPaused, timeScale, currentTime, lastUpdateTime,
          animationFrameId, now, frames, frameCount, call>>

Null == "null"          \* JavaScript null / undefined
NoCall == [op |-> "none"]

(***************************************************************************)
(* types.ts                                                                *)
(***************************************************************************)
TileType == {"grass", "path", "water", "building"}
GridEntityIds == {"e1", "e2"}
Pos(x, y) == [x |-> x, y |-> y]
Size(w, h) == [width |-> w, height |-> h]

\* the value getTile returns for `null`; no stored tile has this type
NullTile == [type |-> Null, occupiedBy |-> Null, walkable |-> FALSE, buildable |-> FALSE]

(***************************************************************************)
(* helpers.ts                                                              *)
(***************************************************************************)
isPositionValid(pos, width, height) ==
  pos.x >= 0 /\ pos.x < width /\ pos.y >= 0 /\ pos.y < height

\* the loops with `<=` for `<`
getPositionsInArea_Inclusive(position, size) ==
  { Pos(x, y) : x \in position.x .. (position.x + size.width),
                y \in position.y .. (position.y + size.height) }

\* the cells of the loops `for y in [pos.y, pos.y+h) for x in [pos.x, pos.x+w)`
getPositionsInArea(position, size) ==
  { Pos(x, y) : x \in position.x .. (position.x + size.width - 1),
                y \in position.y .. (position.y + size.height - 1) }

(***************************************************************************)
(* WorldGrid                                                               *)
(***************************************************************************)
DefaultTile == [type |-> "grass", occupiedBy |-> Null, walkable |-> TRUE, buildable |-> TRUE]

initializeGrid(width, height) ==
  [y \in 0 .. height - 1 |-> [x \in 0 .. width - 1 |-> DefaultTile]]

\* new WorldGrid(width, height): allocates a fresh tiles array
NewRef(store) == Cardinality(DOMAIN store) + 1

WorldGridNew(store, width, height) ==
  LET r == NewRef(store)
  IN [grid  |-> [width |-> width, height |-> height, tiles |-> r],
      store |-> [q \in DOMAIN store \cup {r} |->
                   IF q = r THEN initializeGrid(width, height) ELSE store[q]]]

isValidGridPosition(grid, position) ==
  isPositionValid(position, grid.width, grid.height)

\* this.tiles[y][x]; a missing cell reads as undefined (a missing row raises
\* TypeError, see getTileThrows)
TileAt(store, grid, position) ==
  LET rows == store[grid.tiles]
  IN IF position.y \in DOMAIN rows /\ position.x \in DOMAIN rows[position.y]
     THEN rows[position.y][position.x]
     ELSE NullTile

getTile(store, grid, position) ==
  IF ~isValidGridPosition(grid, position)
  THEN NullTile
  ELSE TileAt(store, grid, position)

\* getTile raises TypeError: the position passes the bounds check and
\* this.tiles[position.y] is undefined
getTileThrows(store, grid, position) ==
  isValidGridPosition(grid, position) /\ position.y \notin DOMAIN store[grid.tiles]

\* { ...currentTile, ...tileData }: the supplied fields win
\* the merge that starts from a fresh tile instead of the current one
MergeTile_FromDefault(currentTile, tileData) ==
  [f \in DOMAIN currentTile |-> IF f \in DOMAIN tileData THEN tileData[f] ELSE DefaultTile[f]]

MergeTile(currentTile, tileData) ==
  [f \in DOMAIN currentTile |-> IF f \in DOMAIN tileData THEN tileData[f] ELSE currentTile[f]]

\* writes one cell of a tiles array
PutTile(store, ref, position, tile) ==
  [store EXCEPT ![ref][position.y][position.x] = tile]

setTile(store, grid, position, tileData) ==
  IF ~isValidGridPosition(grid, position)
  THEN [ret |-> FALSE, store |-> store]
  ELSE [ret |-> TRUE,
        store |-> PutTile(store, grid.tiles, position,
                          MergeTile(TileAt(store, grid, position), tileData))]

\* isWalkable that takes a missing tile for walkable
isWalkable_TrueWithoutTile(store, grid, position) ==
  LET tile == getTile(store, grid, position)
  IN IF tile # NullTile THEN tile.walkable ELSE TRUE

isWalkable(store, grid, position) ==
  LET tile == getTile(store, grid, position)
  IN IF tile # NullTile THEN tile.walkable ELSE FALSE

\* isBuildable that looks at the buildable flag alone
isBuildable_IgnoresOccupant(store, grid, position) ==
  LET tile == getTile(store, grid, position)
  IN IF tile # NullTile THEN tile.buildable ELSE FALSE

isBuildable(store, grid, position) ==
  LET tile == getTile(store, grid, position)
  IN IF tile # NullTile THEN tile.buildable /\ tile.occupiedBy = Null ELSE FALSE

\* isAreaAvailable that tests the anchor tile alone
isAreaAvailable_AnchorOnly(store, grid, position, size) ==
  isValidGridPosition(grid, position) /\ isBuildable(store, grid, position)

isAreaAvailable(store, grid, position, size) ==
  \A checkPos \in getPositionsInArea(position, size) :
     ~(~isValidGridPosition(grid, checkPos) \/ ~isBuildable(store, grid, checkPos))

\* the tiles array after `tile.occupiedBy = v` on every existing tile of the area
MarkArea(store, grid, cells, v) ==
  [store EXCEPT ![grid.tiles] =
     [y \in DOMAIN @ |-> [x \in DOMAIN @[y] |->
        IF Pos(x, y) \in cells /\ getTile(store, grid, Pos(x, y)) # NullTile
        THEN [@[y][x] EXCEPT !.occupiedBy = v]
        ELSE @[y][x]]]]

\* occupyArea without the check made first: the free tiles of the area are taken
occupyArea_NoPrecheck(store, grid, position, size, entityId) ==
  [ret |-> isAreaAvailable(store, grid, position, size),
   store |-> MarkArea(store, grid,
                      { p \in getPositionsInArea(position, size) : isBuildable(store, grid, p) },
                      entityId)]

occupyArea(store, grid, position, size, entityId) ==
  IF ~isAreaAvailable(store, grid, position, size)
  THEN [ret |-> FALSE, store |-> store]
  ELSE [ret |-> TRUE,
        store |-> MarkArea(store, grid, getPositionsInArea(position, size), entityId)]

\* freeArea that gives up on a rectangle reaching out of bounds
freeArea_StopsOutOfBounds(store, grid, position, size) ==
  IF \E p \in getPositionsInArea(position, size) : ~isValidGridPosition(grid, p)
  THEN store
  ELSE MarkArea(store, grid, getPositionsInArea(position, size), Null)

\* freeArea that clears the occupant of every tile of the grid
freeArea_WholeGrid(store, grid, position, size) ==
  MarkArea(store, grid,
           { Pos(x, y) : x \in 0 .. grid.width - 1, y \in 0 .. grid.height - 1 },
           Null)

freeArea(store, grid, position, size) ==
  MarkArea(store, grid,
           { p \in getPositionsInArea(position, size) : isValidGridPosition(grid, p) },
           Null)

getDimensions(grid) == Size(grid.width, grid.height)

serialize(grid) ==
  [width |-> grid.width, height |-> grid.height, tiles |-> grid.tiles]

\* an array no grid refers to any more is dropped from the store
Release(store, ref) == [q \in DOMAIN store \ {ref} |-> store[q]]

\* deserialize that keeps the tiles the constructor made
deserialize_KeepsFreshTiles(store, data) ==
  LET made == WorldGridNew(store, data.width, data.height)
  IN [grid |-> made.grid, store |-> made.store]

\* new WorldGrid(data.width, data.height), then grid.tiles = data.tiles: the
\* array the constructor allocated is unreachable after the assignment
deserialize(store, data) ==
  LET made == WorldGridNew(store, data.width, data.height)
  IN [grid  |-> [made.grid EXCEPT !.tiles = data.tiles],
      store |-> Release(made.store, made.grid.tiles)]

(***************************************************************************)
(* collision                                                               *)
(***************************************************************************)
isAreaWithinBounds(position, size, worldWidth, worldHeight) ==
  /\ position.x >= 0
  /\ position.y >= 0
  /\ position.x + size.width <= worldWidth
  /\ position.y + size.height <= worldHeight

\* isPlacementValid that stops after the bounds check
isPlacementValid_BoundsOnly(store, grid, position, size) ==
  LET dimensions == getDimensions(grid)
  IN isAreaWithinBounds(position, size, dimensions.width, dimensions.height)

isPlacementValid(store, grid, position, size) ==
  LET dimensions == getDimensions(grid)
  IN IF ~isAreaWithinBounds(position, size, dimensions.width, dimensions.height)
     THEN FALSE
     ELSE isAreaAvailable(store, grid, position, size)

(***************************************************************************)
(* getLinePositions.  A coordinate handed to it is a JavaScript number;    *)
(* the model writes it as a count of halves (3 stands for 1.5), so that    *)
(* Math.floor has work to do.  The positions returned are whole numbers.   *)
(***************************************************************************)
\* Math.trunc for Math.floor
floor_Truncates(halves) == IF halves >= 0 THEN halves \div 2 ELSE -((-halves) \div 2)

floor(halves) == halves \div 2
abs(n) == IF n < 0 THEN -n ELSE n

\* the loop with the end test before the push: the end point is never pushed
RECURSIVE lineLoop_DropsEnd(_, _, _, _, _, _, _, _, _, _, _)
lineLoop_DropsEnd(positions, x0, y0, x1, y1, dx, dy, sx, sy, err, fuel) ==
  IF x0 = x1 /\ y0 = y1 THEN [positions |-> positions, done |-> TRUE]
  ELSE IF fuel = 0 THEN [positions |-> positions, done |-> FALSE]
  ELSE LET e2   == 2 * err
           err1 == IF e2 > -dy THEN err - dy ELSE err
           xn   == IF e2 > -dy THEN x0 + sx ELSE x0
           err2 == IF e2 < dx THEN err1 + dx ELSE err1
           yn   == IF e2 < dx THEN y0 + sy ELSE y0
       IN lineLoop_DropsEnd(Append(positions, Pos(x0, y0)), xn, yn, x1, y1,
                            dx, dy, sx, sy, err2, fuel - 1)

\* the `while (true)` loop; `fuel` bounds the iterations the model follows:
\* done = FALSE reports a loop still running when the fuel is used up
RECURSIVE lineLoop(_, _, _, _, _, _, _, _, _, _, _)
lineLoop(positions, x0, y0, x1, y1, dx, dy, sx, sy, err, fuel) ==
  LET pushed == Append(positions, Pos(x0, y0))
  IN IF x0 = x1 /\ y0 = y1 THEN [positions |-> pushed, done |-> TRUE]
     ELSE IF fuel = 0 THEN [positions |-> pushed, done |-> FALSE]
     ELSE LET e2   == 2 * err
              err1 == IF e2 > -dy THEN err - dy ELSE err
              xn   == IF e2 > -dy THEN x0 + sx ELSE x0
              err2 == IF e2 < dx THEN err1 + dx ELSE err1
              yn   == IF e2 < dx THEN y0 + sy ELSE y0
          IN lineLoop(pushed, xn, yn, x1, y1, dx, dy, sx, sy, err2, fuel - 1)

runLine(start, end, fuel) ==
  LET x0 == floor(start.x)
      y0 == floor(start.y)
      x1 == floor(end.x)
      y1 == floor(end.y)
      dx == abs(x1 - x0)
      dy == abs(y1 - y0)
      sx == IF x0 < x1 THEN 1 ELSE -1
      sy == IF y0 < y1 THEN 1 ELSE -1
  IN lineLoop(<<>>, x0, y0, x1, y1, dx, dy, sx, sy, dx - dy, fuel)

LineFuel == 4 * (2 * MaxCoord + 2)

getLinePositions(start, end) == runLine(start, end, LineFuel).positions

(***************************************************************************)
(* collision: the searches built on isPlacementValid and getLinePositions  *)
(***************************************************************************)
\* the (dx, dy) of the two nested loops, dx ascending, then dy ascending
ringOffsets(distance) ==
  [i \in 1 .. (2 * distance + 1) * (2 * distance + 1) |->
     [dx |-> ((i - 1) \div (2 * distance + 1)) - distance,
      dy |-> ((i - 1) % (2 * distance + 1)) - distance]]

\* a pass of the loop over `distance` with the perimeter test written with `||`
ringPositions_CornersOnly(store, grid, targetPosition, size, distance) ==
  LET checkPos(o) == Pos(targetPosition.x + o.dx, targetPosition.y + o.dy)
      kept(o) == /\ ~(abs(o.dx) # distance \/ abs(o.dy) # distance)
                 /\ isPlacementValid(store, grid, checkPos(o), size)
      offsets == SelectSeq(ringOffsets(distance), kept)
  IN [i \in DOMAIN offsets |-> checkPos(offsets[i])]

\* one pass of the loop over `distance`: the valid positions on the perimeter
ringPositions(store, grid, targetPosition, size, distance) ==
  LET checkPos(o) == Pos(targetPosition.x + o.dx, targetPosition.y + o.dy)
      kept(o) == /\ ~(abs(o.dx) # distance /\ abs(o.dy) # distance)
                 /\ isPlacementValid(store, grid, checkPos(o), size)
      offsets == SelectSeq(ringOffsets(distance), kept)
  IN [i \in DOMAIN offsets |-> checkPos(offsets[i])]

\* for (distance = 1; distance <= maxDistance; distance++) with its break
RECURSIVE findLoop(_, _, _, _, _, _)
findLoop(store, grid, targetPosition, size, maxDistance, distance) ==
  IF distance > maxDistance THEN <<>>
  ELSE LET validPositions == ringPositions(store, grid, targetPosition, size, distance)
       IN IF Len(validPositions) > 0
          THEN validPositions
          ELSE findLoop(store, grid, targetPosition, size, maxDistance, distance + 1)

findValidPlacementPositions(store, grid, targetPosition, size, maxDistance) ==
  findLoop(store, grid, targetPosition, size, maxDistance, 1)

\* |x - tx| + |y - ty|
manhattan(position, targetPosition) ==
  abs(position.x - targetPosition.x) + abs(position.y - targetPosition.y)

\* the loop with `<=`: a later position at the same distance wins
RECURSIVE closestLoop_LastWins(_, _, _, _, _)
closestLoop_LastWins(validPositions, targetPosition, i, closestPosition, closestDistance) ==
  IF i > Len(validPositions) THEN closestPosition
  ELSE LET distance == manhattan(validPositions[i], targetPosition)
       IN IF distance <= closestDistance
          THEN closestLoop_LastWins(validPositions, targetPosition, i + 1, validPositions[i], distance)
          ELSE closestLoop_LastWins(validPositions, targetPosition, i + 1,
                                    closestPosition, closestDistance)

\* for (let i = 1; i < validPositions.length; i++): i counts from 2 here
RECURSIVE closestLoop(_, _, _, _, _)
closestLoop(validPositions, targetPosition, i, closestPosition, closestDistance) ==
  IF i > Len(validPositions) THEN closestPosition
  ELSE LET distance == manhattan(validPositions[i], targetPosition)
       IN IF distance < closestDistance
          THEN closestLoop(validPositions, targetPosition, i + 1, validPositions[i], distance)
          ELSE closestLoop(validPositions, targetPosition, i + 1,
                           closestPosition, closestDistance)

\* the null getClosestValidPosition returns
NullPosition == [null |-> TRUE]

getClosestValidPosition(store, grid, targetPosition, size, maxDistance) ==
  LET validPositions ==
        findValidPlacementPositions(store, grid, targetPosition, size, maxDistance)
  IN IF Len(validPositions) = 0
     THEN NullPosition
     ELSE closestLoop(validPositions, targetPosition, 2, validPositions[1],
                      manhattan(validPositions[1], targetPosition))

\* isPathClear that leaves the two end points out
isPathClear_SkipsEnds(store, grid, startPos, endPos) ==
  LET positions == getLinePositions(startPos, endPos)
  IN \A i \in DOMAIN positions :
       (i = 1 \/ i = Len(positions)) \/ isWalkable(store, grid, positions[i])

\* startPos and endPos are counted in halves, as getLinePositions takes them
isPathClear(store, grid, startPos, endPos) ==
  LET positions == getLinePositions(startPos, endPos)
  IN \A i \in DOMAIN positions : isWalkable(store, grid, positions[i])

\* the copy loop: tempGrid.setTile({x, y}, tile) for each tile of the grid
RECURSIVE copyTiles(_, _, _, _)
copyTiles(store, grid, tempGrid, cells) ==
  IF cells = {} THEN store
  ELSE LET c    == CHOOSE c \in cells : TRUE
           tile == getTile(store, grid, c)
           next == IF tile # NullTile
                   THEN setTile(store, tempGrid, c, tile).store
                   ELSE store
       IN copyTiles(next, grid, tempGrid, cells \ {c})

\* the loop over the candidate footprint
RECURSIVE blockTiles(_, _, _)
blockTiles(store, tempGrid, cells) ==
  IF cells = {} THEN store
  ELSE LET c == CHOOSE c \in cells : TRUE
       IN blockTiles(setTile(store, tempGrid, c, [walkable |-> FALSE, buildable |-> FALSE]).store,
                     tempGrid, cells \ {c})

\* the check of the paths that looks at the first leg of each path alone
pathsBlocked_FirstLegOnly(store, tempGrid, essentialPaths) ==
  \E k \in DOMAIN essentialPaths :
     /\ Len(essentialPaths[k]) >= 2
     /\ ~isPathClear(store, tempGrid, essentialPaths[k][1], essentialPaths[k][2])

\* a path is a list of points; its legs are the pairs of neighbours
pathsBlocked(store, tempGrid, essentialPaths) ==
  \E k \in DOMAIN essentialPaths :
     \E i \in 1 .. Len(essentialPaths[k]) - 1 :
        ~isPathClear(store, tempGrid, essentialPaths[k][i], essentialPaths[k][i + 1])

\* wouldBlockEssentialPaths with the copy made by deserialize(serialize())
wouldBlockEssentialPaths_CopiesBySerialize(store, grid, position, size, essentialPaths) ==
  LET made    == deserialize(store, serialize(grid))
      blocked == blockTiles(made.store, made.grid, getPositionsInArea(position, size))
  IN [ret |-> pathsBlocked(blocked, made.grid, essentialPaths), store |-> blocked]

\* store: the heap when the call returns, the temporary grid dropped
wouldBlockEssentialPaths(store, grid, position, size, essentialPaths) ==
  LET made    == WorldGridNew(store, getDimensions(grid).width, getDimensions(grid).height)
      cells   == { Pos(x, y) : x \in 0 .. getDimensions(grid).width - 1,
                               y \in 0 .. getDimensions(grid).height - 1 }
      copied  == copyTiles(made.store, grid, made.grid, cells)
      blocked == blockTiles(copied, made.grid, getPositionsInArea(position, size))
  IN [ret |-> pathsBlocked(blocked, made.grid, essentialPaths),
      store |-> Release(blocked, made.grid.tiles)]


(***************************************************************************)
(* JavaScript Map and Set: a Map is a function on its keys.                *)
(***************************************************************************)
EmptyMap == <<>>
MapHas(m, k) == k \in DOMAIN m
MapSet(m, k, v) == [x \in DOMAIN m \cup {k} |-> IF x = k THEN v ELSE m[x]]
MapDelete(m, k) == [x \in DOMAIN m \ {k} |-> m[x]]

(***************************************************************************)
(* Entity                                                                  *)
(***************************************************************************)
\* generateEntityId(): a fresh string on every call (helpers.ts)
GeneratedIds == <<"entity_1", "entity_2", "entity_3", "entity_4", "entity_5">>
generateEntityId(n) == GeneratedIds[n + 1]

\* new Entity(id): `id || generateEntityId()`
EntityNew(id, n) ==
  [id |-> IF id = Null \/ id = "" THEN generateEntityId(n) ELSE id,
   components |-> EmptyMap,
   isActive |-> TRUE]

\* Entity.addComponent that keeps a component already held under the type
Entity_addComponent_KeepsExisting(entity, component) ==
  IF ~entity.isActive
  THEN [threw |-> TRUE, entity |-> entity]
  ELSE IF MapHas(entity.components, component.type)
  THEN [threw |-> FALSE, entity |-> entity]
  ELSE [threw |-> FALSE,
        entity |-> [entity EXCEPT !.components = MapSet(@, component.type, component)]]

\* Entity.addComponent: throws on an inactive entity
Entity_addComponent(entity, component) ==
  IF ~entity.isActive
  THEN [threw |-> TRUE, entity |-> entity]
  ELSE [threw |-> FALSE,
        entity |-> [entity EXCEPT !.components = MapSet(@, component.type, component)]]

hasComponent(entity, type) == MapHas(entity.components, type)
hasComponents(entity, types) == \A type \in types : hasComponent(entity, type)

\* Entity.removeComponent without the test of the active flag
Entity_removeComponent_IgnoresActive(entity, type) ==
  [ret |-> MapHas(entity.components, type),
   entity |-> [entity EXCEPT !.components = MapDelete(@, type)]]

Entity_removeComponent(entity, type) ==
  IF ~entity.isActive
  THEN [ret |-> FALSE, entity |-> entity]
  ELSE [ret |-> MapHas(entity.components, type),
        entity |-> [entity EXCEPT !.components = MapDelete(@, type)]]

getComponentTypes(entity) == DOMAIN entity.components
getIsActive(entity) == entity.isActive
deactivate(entity) == [entity EXCEPT !.isActive = FALSE]
reactivate(entity) == [entity EXCEPT !.isActive = TRUE]

\* Entity.clearComponents: nothing happens on an inactive entity
clearComponents(entity) ==
  IF ~entity.isActive THEN entity
  ELSE [entity EXCEPT !.components = EmptyMap]

(***************************************************************************)
(* EntityManager: a manager value is [entities, componentRegistry].  The   *)
(* Map `entities` holds the Entity objects themselves; an object that      *)
(* leaves the Map is handed to the caller in the call's record.            *)
(***************************************************************************)
\* registerEntityComponent that leaves a type with a set as it is
registerEntityComponent_FirstHolderOnly(registry, entityId, componentType) ==
  IF ~MapHas(registry, componentType)
  THEN MapSet(registry, componentType, {entityId})
  ELSE registry

registerEntityComponent(registry, entityId, componentType) ==
  LET made == IF ~MapHas(registry, componentType)
              THEN MapSet(registry, componentType, {})
              ELSE registry
  IN [made EXCEPT ![componentType] = @ \cup {entityId}]

\* unregisterEntityComponent without the deletion of an emptied set's key
unregisterEntityComponent_KeepsEmptyKey(registry, entityId, componentType) ==
  IF MapHas(registry, componentType)
  THEN [registry EXCEPT ![componentType] = @ \ {entityId}]
  ELSE registry

\* unregisterEntityComponent that drops the type's key without looking at the size
unregisterEntityComponent_DropsKey(registry, entityId, componentType) ==
  IF MapHas(registry, componentType)
  THEN MapDelete(registry, componentType)
  ELSE registry

unregisterEntityComponent(registry, entityId, componentType) ==
  IF MapHas(registry, componentType)
  THEN LET removed == [registry EXCEPT ![componentType] = @ \ {entityId}]
       IN IF removed[componentType] = {}
          THEN MapDelete(removed, componentType)
          ELSE removed
  ELSE registry

\* for (const componentType of types) this.unregisterEntityComponent(id, componentType)
RECURSIVE UnregisterAll(_, _, _)
UnregisterAll(registry, entityId, types) ==
  IF types = {} THEN registry
  ELSE LET t == CHOOSE t \in types : TRUE
       IN UnregisterAll(unregisterEntityComponent(registry, entityId, t), entityId, types \ {t})

createEntity(m, id, n) ==
  LET entity == EntityNew(id, n)
  IN [ret |-> entity,
      m |-> [m EXCEPT !.entities = MapSet(@, entity.id, entity)]]

\* Null stands for undefined
NoEntity == [id |-> Null, components |-> EmptyMap, isActive |-> FALSE]
getEntity(m, id) == IF MapHas(m.entities, id) THEN m.entities[id] ELSE NoEntity

\* removeEntity that leaves the registry alone
removeEntity_KeepsRegistry(m, id) ==
  IF ~MapHas(m.entities, id)
  THEN [ret |-> FALSE, m |-> m, removed |-> NoEntity]
  ELSE [ret |-> TRUE,
        m |-> [m EXCEPT !.entities = MapDelete(@, id)],
        removed |-> deactivate(m.entities[id])]

\* removed: the Entity object after the call, as a caller holding it sees it
removeEntity(m, id) ==
  IF ~MapHas(m.entities, id)
  THEN [ret |-> FALSE, m |-> m, removed |-> NoEntity]
  ELSE LET entity == m.entities[id]
       IN [ret |-> TRUE,
           m |-> [entities |-> MapDelete(m.entities, id),
                  componentRegistry |->
                    UnregisterAll(m.componentRegistry, id, getComponentTypes(entity))],
           removed |-> deactivate(entity)]

\* addComponentToEntity that registers before it looks the entity up
addComponentToEntity_RegistersUnknown(m, entityId, component) ==
  LET registered == [m EXCEPT !.componentRegistry =
                       registerEntityComponent(@, entityId, component.type)]
  IN IF ~MapHas(m.entities, entityId)
     THEN [ret |-> FALSE, threw |-> FALSE, m |-> registered]
     ELSE LET added == Entity_addComponent(m.entities[entityId], component)
          IN IF added.threw
             THEN [ret |-> FALSE, threw |-> FALSE, m |-> m]
             ELSE [ret |-> TRUE, threw |-> FALSE,
                   m |-> [registered EXCEPT !.entities[entityId] = added.entity]]

\* threw: whether the call ends by an exception reaching the caller; the
\* catch block turns the one Entity.addComponent throws into `return false`
addComponentToEntity(m, entityId, component) ==
  IF ~MapHas(m.entities, entityId)
  THEN [ret |-> FALSE, threw |-> FALSE, m |-> m]
  ELSE LET added == Entity_addComponent(m.entities[entityId], component)
       IN IF added.threw
          THEN [ret |-> FALSE, threw |-> FALSE, m |-> m]
          ELSE [ret |-> TRUE, threw |-> FALSE,
                m |-> [entities |-> [m.entities EXCEPT ![entityId] = added.entity],
                       componentRegistry |->
                         registerEntityComponent(m.componentRegistry, entityId, component.type)]]

removeComponentFromEntity(m, entityId, componentType) ==
  IF ~MapHas(m.entities, entityId)
  THEN [ret |-> FALSE, m |-> m]
  ELSE LET removed == Entity_removeComponent(m.entities[entityId], componentType)
       IN IF removed.ret
          THEN [ret |-> TRUE,
                m |-> [entities |-> [m.entities EXCEPT ![entityId] = removed.entity],
                       componentRegistry |->
                         unregisterEntityComponent(m.componentRegistry, entityId, componentType)]]
          ELSE [ret |-> FALSE, m |-> m]

getAllEntities(m, includeInactive) ==
  { id \in DOMAIN m.entities : includeInactive \/ getIsActive(m.entities[id]) }

\* getEntitiesWithComponents without the test of the active flag
getEntitiesWithComponents_IncludesInactive(m, componentTypes) ==
  IF Len(componentTypes) = 0
  THEN getAllEntities(m, FALSE)
  ELSE LET firstComponentType == componentTypes[1]
       IN IF ~MapHas(m.componentRegistry, firstComponentType)
             \/ m.componentRegistry[firstComponentType] = {}
          THEN {}
          ELSE { entityId \in m.componentRegistry[firstComponentType] :
                   /\ MapHas(m.entities, entityId)
                   /\ hasComponents(m.entities[entityId],
                                    { componentTypes[i] : i \in DOMAIN componentTypes }) }

\* getEntitiesWithComponents that takes its candidates from the last type
getEntitiesWithComponents_SeedsFromLast(m, componentTypes) ==
  IF Len(componentTypes) = 0
  THEN getAllEntities(m, FALSE)
  ELSE LET lastComponentType == componentTypes[Len(componentTypes)]
       IN IF ~MapHas(m.componentRegistry, lastComponentType)
             \/ m.componentRegistry[lastComponentType] = {}
          THEN {}
          ELSE { entityId \in m.componentRegistry[lastComponentType] :
                   /\ MapHas(m.entities, entityId)
                   /\ getIsActive(m.entities[entityId])
                   /\ hasComponents(m.entities[entityId],
                                    { componentTypes[i] : i \in DOMAIN componentTypes }) }

\* the ids of the entities returned; componentTypes is the argument list
getEntitiesWithComponents(m, componentTypes) ==
  IF Len(componentTypes) = 0
  THEN getAllEntities(m, FALSE)
  ELSE LET firstComponentType == componentTypes[1]
       IN IF ~MapHas(m.componentRegistry, firstComponentType)
             \/ m.componentRegistry[firstComponentType] = {}
          THEN {}
          ELSE { entityId \in m.componentRegistry[firstComponentType] :
                   /\ MapHas(m.entities, entityId)
                   /\ getIsActive(m.entities[entityId])
                   /\ hasComponents(m.entities[entityId],
                                    { componentTypes[i] : i \in DOMAIN componentTypes }) }

getEntitiesWithComponent(m, componentType) ==
  getEntitiesWithComponents(m, <<componentType>>)

\* queryEntities with `every` for `some` in the any clause
queryEntities_AnyAsAll(m, query) ==
  LET types(clause) == { clause[i] : i \in DOMAIN clause }
      c0 == getAllEntities(m, FALSE)
      c1 == IF Len(query.all) > 0
            THEN { id \in c0 : hasComponents(m.entities[id], types(query.all)) }
            ELSE c0
      c2 == IF Len(query.any) > 0
            THEN { id \in c1 : \A type \in types(query.any) : hasComponent(m.entities[id], type) }
            ELSE c1
  IN IF Len(query.none) > 0
     THEN { id \in c2 : ~\E type \in types(query.none) : hasComponent(m.entities[id], type) }
     ELSE c2

\* query is [all, any, none], each a list of types; an absent clause is <<>>
queryEntities(m, query) ==
  LET types(clause) == { clause[i] : i \in DOMAIN clause }
      c0 == getAllEntities(m, FALSE)
      c1 == IF Len(query.all) > 0
            THEN { id \in c0 : hasComponents(m.entities[id], types(query.all)) }
            ELSE c0
      c2 == IF Len(query.any) > 0
            THEN { id \in c1 : \E type \in types(query.any) : hasComponent(m.entities[id], type) }
            ELSE c1
  IN IF Len(query.none) > 0
     THEN { id \in c2 : ~\E type \in types(query.none) : hasComponent(m.entities[id], type) }
     ELSE c2

getRegisteredComponentTypes(m) == DOMAIN m.componentRegistry
getEntityCountByComponent(m, componentType) ==
  IF MapHas(m.componentRegistry, componentType)
  THEN Cardinality(m.componentRegistry[componentType])
  ELSE 0

\* clear() without `this.componentRegistry.clear()`
clear_KeepsRegistry(m) ==
  [m |-> [entities |-> EmptyMap, componentRegistry |-> m.componentRegistry],
   cleared |-> [id \in DOMAIN m.entities |-> deactivate(m.entities[id])]]

\* clear(): `cleared` holds the Entity objects that were stored, as a caller
\* holding them sees them after the call
clear(m) ==
  [m |-> [entities |-> EmptyMap, componentRegistry |-> EmptyMap],
   cleared |-> [id \in DOMAIN m.entities |-> deactivate(m.entities[id])]]

\* the (type, id) pairs the loops of rebuildComponentRegistry go through; the
\* registry they build is the same in whatever order they are met
HeldPairs(m) ==
  UNION { { <<type, id>> : type \in getComponentTypes(m.entities[id]) } : id \in DOMAIN m.entities }

\* A Map or Set is iterated in the order its keys were inserted, which the
\* manager value does not keep: the orders a Map or Set of these keys can have
RECURSIVE Orders(_)
Orders(keys) ==
  IF keys = {} THEN { <<>> }
  ELSE UNION { { <<k>> \o rest : rest \in Orders(keys \ {k}) } : k \in keys }

\* the sequences that go through the outer keys in the given order and, for
\* each key, through the (type, id) pairs inner[key] in any order
RECURSIVE NestedOrders(_, _)
NestedOrders(outerOrder, inner) ==
  IF outerOrder = <<>> THEN { <<>> }
  ELSE { innerOrder \o rest :
           innerOrder \in Orders(inner[Head(outerOrder)]),
           rest \in NestedOrders(Tail(outerOrder), inner) }

\* for (const [componentType, entityIds] of this.componentRegistry)
\*   for (const entityId of entityIds)
RegistryOrders(m) ==
  LET inner == [type \in DOMAIN m.componentRegistry |->
                  { <<type, id>> : id \in m.componentRegistry[type] }]
  IN UNION { NestedOrders(typeOrder, inner) : typeOrder \in Orders(DOMAIN m.componentRegistry) }

\* for (const entity of this.entities.values())
\*   for (const componentType of entity.getComponentTypes())
HeldOrders(m) ==
  LET inner == [id \in DOMAIN m.entities |->
                  { <<type, id>> : type \in getComponentTypes(m.entities[id]) }]
  IN UNION { NestedOrders(idOrder, inner) : idOrder \in Orders(DOMAIN m.entities) }

\* first loop of validateConsistency: each registered (type, id), in the
\* order the loop meets them
RECURSIVE checkRegistered(_, _, _)
checkRegistered(errors, m, pairs) ==
  IF pairs = <<>> THEN errors
  ELSE LET p    == Head(pairs)
           type == p[1]
           id   == p[2]
           err  == IF ~MapHas(m.entities, id)
                   THEN <<[kind |-> "non-existent entity", id |-> id, type |-> type]>>
                   ELSE IF ~hasComponent(m.entities[id], type)
                   THEN <<[kind |-> "registered but doesn't have it", id |-> id, type |-> type]>>
                   ELSE <<>>
       IN checkRegistered(errors \o err, m, Tail(pairs))

\* second loop of validateConsistency: each (type, id) an entity holds, in
\* the order the loop meets them
RECURSIVE checkHeld(_, _, _)
checkHeld(errors, m, pairs) ==
  IF pairs = <<>> THEN errors
  ELSE LET p    == Head(pairs)
           type == p[1]
           id   == p[2]
           err  == IF ~MapHas(m.componentRegistry, type) \/ id \notin m.componentRegistry[type]
                   THEN <<[kind |-> "has component but is not registered", id |-> id, type |-> type]>>
                   ELSE <<>>
       IN checkHeld(errors \o err, m, Tail(pairs))

\* validateConsistency that returns at the first error it finds
validateConsistency_FirstErrorOnly(m, registryOrder, heldOrder) ==
  LET errors == checkHeld(checkRegistered(<<>>, m, registryOrder), m, heldOrder)
  IN [isValid |-> Len(errors) = 0,
      errors |-> IF Len(errors) = 0 THEN errors ELSE <<errors[1]>>]

\* registryOrder, heldOrder: the (type, id) pairs in the order the two loops
\* meet them
validateConsistency(m, registryOrder, heldOrder) ==
  LET errors == checkHeld(checkRegistered(<<>>, m, registryOrder), m, heldOrder)
  IN [isValid |-> Len(errors) = 0, errors |-> errors]

\* the loops of rebuildComponentRegistry over every entity's component types
RECURSIVE registerAll(_, _)
registerAll(registry, pairs) ==
  IF pairs = {} THEN registry
  ELSE LET p == CHOOSE p \in pairs : TRUE
       IN registerAll(registerEntityComponent(registry, p[2], p[1]), pairs \ {p})

rebuildComponentRegistry(m) ==
  [m EXCEPT !.componentRegistry = registerAll(EmptyMap, HeldPairs(m))]

\* the game's grid after construction
\* animationFrameId = null; the ids requestAnimationFrame returns are positive
NoFrame == 0

\* new Game(): not running, not paused, time 0, no frame requested
InitGame ==
  /\ isRunning = FALSE
  /\ isPaused = FALSE
  /\ timeScale = 1
  /\ currentTime = 0
  /\ lastUpdateTime = 0
  /\ animationFrameId = NoFrame
  /\ now = 0
  /\ frames = {}
  /\ frameCount = 0

InitGrid ==
  LET made == WorldGridNew(<<>>, GridW, GridH)
  IN /\ tileStore = made.store
     /\ grids = <<made.grid>>
     /\ gridCalls = 0

(***************************************************************************)
(* The entity manager's callers.                                           *)
(***************************************************************************)
CallerIds == {"a"}
ComponentTypes == {"test", "another"}
Components ==
  { [type |-> "test", value |-> 1], [type |-> "test", value |-> 2],
    [type |-> "another", value |-> 1] }
PlainComponents == { c \in Components : c.value = 1 }

Manager == [entities |-> entities, componentRegistry |-> componentRegistry]
SetManager(m) ==
  /\ entities' = m.entities
  /\ componentRegistry' = m.componentRegistry

\* the ids a caller can name: its own and the ones generated so far
KnownIds == CallerIds \cup { GeneratedIds[i] : i \in 1 .. generated }

InitEntities ==
  /\ entities = EmptyMap
  /\ componentRegistry = EmptyMap
  /\ generated = 0
  /\ manualCalls = 0

\* createEntity(id); Null is the call without an argument.  `replaced` is the
\* Entity object the Map held under the new entity's id before the call.
CreateEntityCall(id) ==
  /\ (id = Null \/ id = "") => generated < MaxGenerated
  /\ LET r == createEntity(Manager, id, generated)
     IN /\ SetManager(r.m)
        /\ call' = [op |-> "createEntity", id |-> id, ret |-> r.ret,
                    replaced |-> getEntity(Manager, r.ret.id)]
  /\ generated' = IF id = Null \/ id = "" THEN generated + 1 ELSE generated
  /\ UNCHANGED <<gameVars, manualCalls, gridVars>>

RemoveEntityCall(id) ==
  /\ LET r == removeEntity(Manager, id)
     IN /\ SetManager(r.m)
        /\ call' = [op |-> "removeEntity", id |-> id, ret |-> r.ret,
                    present |-> id \in DOMAIN entities, removed |-> r.removed]
  /\ UNCHANGED <<gameVars, generated, manualCalls, gridVars>>

AddComponentToEntityCall(id, component) ==
  /\ LET r == addComponentToEntity(Manager, id, component)
     IN /\ SetManager(r.m)
        /\ call' = [op |-> "addComponentToEntity", id |-> id,
                    component |-> component, ret |-> r.ret, threw |-> r.threw]
  /\ UNCHANGED <<gameVars, generated, manualCalls, gridVars>>

RemoveComponentFromEntityCall(id, type) ==
  /\ LET r == removeComponentFromEntity(Manager, id, type)
     IN /\ SetManager(r.m)
        /\ call' = [op |-> "removeComponentFromEntity", id |-> id,
                    type |-> type, ret |-> r.ret]
  /\ UNCHANGED <<gameVars, generated, manualCalls, gridVars>>

\* the four calls of the manager that keep the registry themselves
CoreCalls(components) ==
  \/ \E id \in KnownIds \cup {Null, ""} : CreateEntityCall(id)
  \/ \E id \in KnownIds : RemoveEntityCall(id)
  \/ \E id \in KnownIds, c \in components : AddComponentToEntityCall(id, c)
  \/ \E id \in KnownIds, t \in ComponentTypes : RemoveComponentFromEntityCall(id, t)

NextEntityCore == CoreCalls(Components)

\* a new EntityManager and a new WorldGrid, no call made yet
Init == InitEntities /\ InitGrid /\ InitGame /\ call = NoCall

SpecEntityCore == Init /\ [][NextEntityCore]_vars

\* registerEntityComponent / unregisterEntityComponent called by hand
RegisterCall(id, type) ==
  /\ manualCalls < MaxManualCalls
  /\ componentRegistry' = registerEntityComponent(componentRegistry, id, type)
  /\ call' = [op |-> "registerEntityComponent", id |-> id, type |-> type]
  /\ manualCalls' = manualCalls + 1
  /\ UNCHANGED <<gameVars, entities, generated, gridVars>>

UnregisterCall(id, type) ==
  /\ manualCalls < MaxManualCalls
  /\ componentRegistry' = unregisterEntityComponent(componentRegistry, id, type)
  /\ call' = [op |-> "unregisterEntityComponent", id |-> id, type |-> type]
  /\ manualCalls' = manualCalls + 1
  /\ UNCHANGED <<gameVars, entities, generated, gridVars>>

\* entity.addComponent(component) on the handle of a stored entity
EntityAddComponentCall(id, component) ==
  /\ manualCalls < MaxManualCalls
  /\ MapHas(entities, id)
  /\ LET r == Entity_addComponent(entities[id], component)
     IN /\ entities' = [entities EXCEPT ![id] = r.entity]
        /\ call' = [op |-> "Entity.addComponent", id |-> id,
                    component |-> component, threw |-> r.threw]
  /\ manualCalls' = manualCalls + 1
  /\ UNCHANGED <<gameVars, componentRegistry, generated, gridVars>>

\* entity.deactivate() on the handle of a stored entity
EntityDeactivateCall(id) ==
  /\ manualCalls < MaxManualCalls
  /\ MapHas(entities, id)
  /\ entities' = [entities EXCEPT ![id] = deactivate(@)]
  /\ call' = [op |-> "Entity.deactivate", id |-> id]
  /\ manualCalls' = manualCalls + 1
  /\ UNCHANGED <<gameVars, componentRegistry, generated, gridVars>>

\* entity.removeComponent(type) on the handle of a stored entity
EntityRemoveComponentCall(id, type) ==
  /\ manualCalls < MaxManualCalls
  /\ MapHas(entities, id)
  /\ LET r == Entity_removeComponent(entities[id], type)
     IN /\ entities' = [entities EXCEPT ![id] = r.entity]
        /\ call' = [op |-> "Entity.removeComponent", id |-> id, type |-> type,
                    ret |-> r.ret]
  /\ manualCalls' = manualCalls + 1
  /\ UNCHANGED <<gameVars, componentRegistry, generated, gridVars>>

\* entity.clearComponents() on the handle of a stored entity
EntityClearComponentsCall(id) ==
  /\ manualCalls < MaxManualCalls
  /\ MapHas(entities, id)
  /\ entities' = [entities EXCEPT ![id] = clearComponents(@)]
  /\ call' = [op |-> "Entity.clearComponents", id |-> id]
  /\ manualCalls' = manualCalls + 1
  /\ UNCHANGED <<gameVars, componentRegistry, generated, gridVars>>

\* entity.reactivate() on the handle of a stored entity
EntityReactivateCall(id) ==
  /\ MapHas(entities, id)
  /\ entities' = [entities EXCEPT ![id] = reactivate(@)]
  /\ call' = [op |-> "Entity.reactivate", id |-> id]
  /\ UNCHANGED <<gameVars, componentRegistry, generated, manualCalls, gridVars>>

\* clear(); `cleared` is what the callers' handles show after it
ClearCall ==
  /\ LET r == clear(Manager)
     IN /\ SetManager(r.m)
        /\ call' = [op |-> "clear", cleared |-> r.cleared]
  /\ UNCHANGED <<gameVars, generated, manualCalls, gridVars>>


RebuildComponentRegistryCall ==
  /\ SetManager(rebuildComponentRegistry(Manager))
  /\ call' = [op |-> "rebuildComponentRegistry"]
  /\ UNCHANGED <<gameVars, generated, manualCalls, gridVars>>

\* the manager's calls together with what a caller can do by hand
NextEntities ==
  \/ CoreCalls(PlainComponents)
  \/ ClearCall
  \/ RebuildComponentRegistryCall
  \/ \E id \in KnownIds, t \in ComponentTypes : RegisterCall(id, t)
  \/ \E id \in KnownIds, t \in ComponentTypes : UnregisterCall(id, t)
  \/ \E id \in KnownIds, c \in PlainComponents : EntityAddComponentCall(id, c)
  \/ \E id \in KnownIds : EntityDeactivateCall(id)
  \/ \E id \in KnownIds : EntityReactivateCall(id)
  \/ \E id \in KnownIds, t \in ComponentTypes : EntityRemoveComponentCall(id, t)
  \/ \E id \in KnownIds : EntityClearComponentsCall(id)

SpecEntities == Init /\ [][NextEntities]_vars

(***************************************************************************)
(* Vocabulary of the entity claims.                                        *)
(***************************************************************************)
Registered(type) ==
  IF type \in DOMAIN componentRegistry THEN componentRegistry[type] ELSE {}
Holders(type) ==
  { id \in DOMAIN entities : entities[id].isActive /\ type \in DOMAIN entities[id].components }
TypeLists == {<<>>} \cup { <<t>> : t \in ComponentTypes }
               \cup { <<t, u>> : t \in ComponentTypes, u \in ComponentTypes }
Queries == [all : TypeLists, any : TypeLists, none : TypeLists]

(* C1: after any sequence of createEntity, addComponentToEntity,
   removeComponentFromEntity and removeEntity calls, with any ids, the ids
   registered under each component type are exactly the ids of the active
   stored entities that have a component of that type. *)
C1_IndexInvariant ==
  \A type \in ComponentTypes : Registered(type) = Holders(type)

(* C10: removeEntity(id) for an id in the store returns true, and right after
   it getEntity(id) is undefined, id is registered under no component type the
   entity held, no getEntitiesWithComponents or queryEntities result contains
   id, and the removed entity object reports active = false. *)
C10_RemoveEntity ==
  (call.op = "removeEntity" /\ call.present)
    => /\ call.ret = TRUE
       /\ getEntity(Manager, call.id) = NoEntity
       /\ call.removed.id = call.id
       /\ ~call.removed.isActive
       /\ \A type \in DOMAIN call.removed.components : call.id \notin Registered(type)
       /\ \A types \in TypeLists : call.id \notin getEntitiesWithComponents(Manager, types)
       /\ \A query \in Queries : call.id \notin queryEntities(Manager, query)

\* an entity holding two registered types was removed while another entity
\* stays registered under one of them
C10_Witness ==
  /\ call.op = "removeEntity" /\ call.present /\ call.ret = TRUE
  /\ DOMAIN call.removed.components = ComponentTypes
  /\ \E type \in ComponentTypes : Registered(type) # {}

\* every id a caller can come to name
AllIds == CallerIds \cup { GeneratedIds[i] : i \in DOMAIN GeneratedIds }
InStore(id) == id \in DOMAIN entities
ManagerUnchanged == entities' = entities /\ componentRegistry' = componentRegistry
RegisteredIn(registry, type) == IF type \in DOMAIN registry THEN registry[type] ELSE {}

(* C11: removeEntity(id) changes nothing about any other entity: every other
   stored entity keeps its component set, its active flag and its membership
   in every registry set, and a registry type key goes away only if the
   removed entity was its last member. *)
C11_RemoveEntityFrame ==
  [][ call'.op = "removeEntity"
        => /\ \A id \in DOMAIN entities \ {call'.id} :
                /\ id \in DOMAIN entities'
                /\ entities'[id] = entities[id]
                /\ \A type \in ComponentTypes :
                     (id \in Registered(type)') <=> (id \in Registered(type))
           /\ \A type \in DOMAIN componentRegistry \ DOMAIN componentRegistry' :
                componentRegistry[type] = {call'.id} ]_vars

\* an entity holding both types was removed: the key it was the last member
\* of is gone, another stored entity is still registered under the other one
C11_Witness ==
  /\ call.op = "removeEntity" /\ call.ret = TRUE
  /\ DOMAIN call.removed.components = ComponentTypes
  /\ \E id \in DOMAIN entities, type \in ComponentTypes :
        /\ id # call.id
        /\ hasComponent(entities[id], type)
        /\ id \in Registered(type)
        /\ \E other \in ComponentTypes : other \notin DOMAIN componentRegistry

(* C12: addComponentToEntity on an entity that is in the store but
   deactivated is a hard failure (it throws, it does not return false), and
   it leaves the entity's components and the registry unchanged. *)
C12_InactiveAddThrows ==
  [][ (call'.op = "addComponentToEntity" /\ InStore(call'.id)
         /\ ~entities[call'.id].isActive)
        => (call'.threw /\ ManagerUnchanged) ]_vars

(* C13: removeEntity, addComponentToEntity and removeComponentFromEntity with
   an id that is not in the store return false without throwing, getEntity
   returns undefined for it, and the stored entities and the registry are as
   before the call. *)
C13_AbsentIdIsNoFailure ==
  [][ (call'.op \in {"removeEntity", "addComponentToEntity", "removeComponentFromEntity"}
         /\ ~InStore(call'.id))
        => /\ call'.ret = FALSE
           /\ call'.op = "addComponentToEntity" => ~call'.threw
           /\ getEntity(Manager, call'.id) = NoEntity
           /\ ManagerUnchanged ]_vars

\* a component was offered to an id the store does not hold, next to a stored
\* and registered entity
C13_Witness ==
  /\ call.op = "addComponentToEntity" /\ ~InStore(call.id) /\ call.ret = FALSE
  /\ \E id \in DOMAIN entities : id \in Registered(call.component.type)

(* C14: addComponentToEntity(id, component) on an active stored entity
   returns true; afterwards the entity holds exactly the given component under
   component.type (a previous one of that type is replaced), its types are
   the former ones and component.type, its other components are unchanged,
   and id is registered under component.type. *)
C14_AddComponent ==
  [][ (call'.op = "addComponentToEntity" /\ InStore(call'.id)
         /\ entities[call'.id].isActive)
        => LET before == entities[call'.id].components
               after  == entities'[call'.id].components
               type   == call'.component.type
           IN /\ call'.ret = TRUE
              /\ DOMAIN after = DOMAIN before \cup {type}
              /\ after[type] = call'.component
              /\ \A t \in DOMAIN before \ {type} : after[t] = before[t]
              /\ entities'[call'.id].isActive
              /\ call'.id \in RegisteredIn(componentRegistry', type) ]_vars

\* the second value of a type was added to an entity that holds both types
C14_Witness ==
  /\ call.op = "addComponentToEntity" /\ call.ret = TRUE
  /\ call.component.value = 2
  /\ InStore(call.id)
  /\ DOMAIN entities[call.id].components = ComponentTypes
  /\ entities[call.id].components[call.component.type] = call.component

(* C15: removeComponentFromEntity(id, type) on a stored entity returns false
   and changes neither the entity nor the registry when the entity is
   inactive or does not hold the type; otherwise it returns true, the entity
   no longer holds the type, its other components are unchanged and id is no
   longer registered under the type. *)
C15_RemoveComponent ==
  [][ (call'.op = "removeComponentFromEntity" /\ InStore(call'.id))
        => LET before == entities[call'.id]
               type   == call'.type
           IN IF ~before.isActive \/ type \notin DOMAIN before.components
              THEN call'.ret = FALSE /\ ManagerUnchanged
              ELSE /\ call'.ret = TRUE
                   /\ call'.id \in DOMAIN entities'
                   /\ entities'[call'.id].isActive
                   /\ DOMAIN entities'[call'.id].components
                        = DOMAIN before.components \ {type}
                   /\ \A t \in DOMAIN before.components \ {type} :
                        entities'[call'.id].components[t] = before.components[t]
                   /\ call'.id \notin RegisteredIn(componentRegistry', type) ]_vars

\* the removal was refused for a deactivated entity that holds the type and
\* is registered under it
C15_Witness ==
  /\ call.op = "removeComponentFromEntity" /\ call.ret = FALSE
  /\ InStore(call.id)
  /\ ~entities[call.id].isActive
  /\ hasComponent(entities[call.id], call.type)
  /\ call.id \in Registered(call.type)

(* C16: createEntity(id) with an id already in the store is rejected: the
   entity stored under the id before the call is still the one stored under
   it afterwards. *)
C16_DuplicateIdRejected ==
  (call.op = "createEntity" /\ call.replaced # NoEntity)
    => entities[call.ret.id] = call.replaced

(* C17: clear() leaves the manager with no stored entities and no registry
   type keys, and every entity stored right before the call reports
   active = false afterwards. *)
C17_Clear ==
  [][ call'.op = "clear"
        => /\ DOMAIN entities' = {}
           /\ DOMAIN componentRegistry' = {}
           /\ getAllEntities(Manager', TRUE) = {}
           /\ DOMAIN call'.cleared = DOMAIN entities
           /\ \A id \in DOMAIN entities : ~getIsActive(call'.cleared[id]) ]_vars

\* two entities, one of them holding a component, were cleared
C17_Witness ==
  /\ call.op = "clear"
  /\ Cardinality(DOMAIN call.cleared) = 2
  /\ \E id \in DOMAIN call.cleared : DOMAIN call.cleared[id].components # {}

(* C18: from any reachable state, with registrations made by hand,
   components added on handles and deactivated entities still stored,
   rebuildComponentRegistry() makes the ids registered under every type T
   exactly the stored entities that are active and hold T. *)
C18_RebuildRestoresInvariant ==
  call.op = "rebuildComponentRegistry"
    => \A type \in ComponentTypes : Registered(type) = Holders(type)

ErrorsOf(kind, id, type) ==
  Cardinality({ i \in DOMAIN call.ret.errors :
                  call.ret.errors[i] = [kind |-> kind, id |-> id, type |-> type] })
Expect(condition) == IF condition THEN 1 ELSE 0

\* what the error list of the last validateConsistency() must hold, by kind
ValidationExact ==
  call.op = "validateConsistency"
    => /\ \A id \in AllIds, type \in ComponentTypes :
            /\ ErrorsOf("non-existent entity", id, type)
                 = Expect(id \in Registered(type) /\ ~InStore(id))
            /\ ErrorsOf("registered but doesn't have it", id, type)
                 = Expect(id \in Registered(type) /\ InStore(id)
                            /\ type \notin DOMAIN entities[id].components)
            /\ ErrorsOf("has component but is not registered", id, type)
                 = Expect(InStore(id) /\ type \in DOMAIN entities[id].components
                            /\ id \notin Registered(type))
       /\ \A i \in DOMAIN call.ret.errors :
            /\ call.ret.errors[i].id \in AllIds
            /\ call.ret.errors[i].type \in ComponentTypes
            /\ call.ret.errors[i].kind \in
                 {"non-existent entity", "registered but doesn't have it",
                  "has component but is not registered"}
       /\ call.ret.isValid <=> (call.ret.errors = <<>>)

(* C19: the error list of validateConsistency() has exactly one entry for
   every registered (type, id) whose id names no stored entity, one for every
   registered (type, id) whose entity lacks the type, and one for every
   stored entity holding a type it is not registered under, and no other
   entry; isValid is true iff the list is empty; the call changes neither the
   store nor the registry. *)
C19_ValidateListsEveryViolation ==
  [][ call'.op = "validateConsistency" => (ManagerUnchanged /\ ValidationExact') ]_vars

\* a validation that found two problems of different kinds
C19_Witness ==
  /\ call.op = "validateConsistency" /\ ~call.ret.isValid
  /\ \E i, j \in DOMAIN call.ret.errors : call.ret.errors[i].kind # call.ret.errors[j].kind

(* C20: validateConsistency() returns isValid = true in exactly the states
   where every active stored entity holding type T is registered under T and
   every id registered under T names a stored entity that is active and
   holds T. *)
C20_ValidIffIndexInvariant ==
  call.op = "validateConsistency"
    => (call.ret.isValid <=> \A type \in ComponentTypes : Registered(type) = Holders(type))

(* C21: in every reachable state of the manager, after any sequence of its
   calls and of register / unregister calls made by hand, the registry holds
   no empty set: a type is listed by getRegisteredComponentTypes() if and
   only if at least one id is registered under it. *)
C21_NoEmptyRegistrySet ==
  \A type \in ComponentTypes :
    /\ (type \in getRegisteredComponentTypes(Manager)) <=> (Registered(type) # {})
    /\ (type \in getRegisteredComponentTypes(Manager))
         <=> (getEntityCountByComponent(Manager, type) > 0)

\* the last id registered under a type was unregistered by hand while the
\* other type stays registered
C21_Witness ==
  /\ call.op = "unregisterEntityComponent"
  /\ call.type \notin getRegisteredComponentTypes(Manager)
  /\ getRegisteredComponentTypes(Manager) # {}
  /\ InStore(call.id) /\ hasComponent(entities[call.id], call.type)


(***************************************************************************)
(* The queries, asked of every manager over two ids: any set of stored     *)
(* entities with any components and active flags, and any registry without *)
(* an empty set.  Each is reached by createEntity, then addComponent and   *)
(* deactivate on the handles and registerEntityComponent by hand.          *)
(***************************************************************************)
QueryIds == {"a", "entity_1"}
QueryClauses == { <<>>, <<"test">>, <<"another">>, <<"test", "another">> }
QueryArgs == [all : QueryClauses, any : QueryClauses, none : QueryClauses]

InitQueries ==
  /\ \E ids \in SUBSET QueryIds :
       \E held \in [ids -> SUBSET ComponentTypes], active \in [ids -> BOOLEAN] :
          entities = [id \in ids |->
                        [id |-> id,
                         components |-> [t \in held[id] |->
                                           CHOOSE c \in PlainComponents : c.type = t],
                         isActive |-> active[id]]]
  /\ \E types \in SUBSET ComponentTypes :
       \E sets \in [types -> (SUBSET QueryIds) \ {{}}] : componentRegistry = sets
  /\ generated = 1
  /\ manualCalls = 0
  /\ InitGrid
  /\ InitGame
  /\ call = NoCall

\* pure queries: each asked once of each manager
GetEntitiesWithComponentsCall(types) ==
  /\ call = NoCall
  /\ call' = [op |-> "getEntitiesWithComponents", types |-> types,
              ret |-> getEntitiesWithComponents(Manager, types)]
  /\ UNCHANGED <<gameVars, entityVars, gridVars>>

GetEntitiesWithComponentCall(type) ==
  /\ call = NoCall
  /\ call' = [op |-> "getEntitiesWithComponent", type |-> type,
              ret |-> getEntitiesWithComponent(Manager, type)]
  /\ UNCHANGED <<gameVars, entityVars, gridVars>>

QueryEntitiesCall(query) ==
  /\ call = NoCall
  /\ call' = [op |-> "queryEntities", query |-> query,
              ret |-> queryEntities(Manager, query)]
  /\ UNCHANGED <<gameVars, entityVars, gridVars>>

NextQueries ==
  \/ \E types \in TypeLists : GetEntitiesWithComponentsCall(types)
  \/ \E type \in ComponentTypes : GetEntitiesWithComponentCall(type)
  \/ \E query \in QueryArgs : QueryEntitiesCall(query)

SpecQueries == InitQueries /\ [][NextQueries]_vars

\* validateConsistency() asked once of each manager; the two orders are the
\* iteration orders of the registry Map and of the entities Map, which follow
\* the order of insertion and so can be any order of the keys
ValidateConsistencyCall(registryOrder, heldOrder) ==
  /\ call = NoCall
  /\ call' = [op |-> "validateConsistency",
              ret |-> validateConsistency(Manager, registryOrder, heldOrder)]
  /\ UNCHANGED <<gameVars, entityVars, gridVars>>

NextValidate ==
  \E registryOrder \in RegistryOrders(Manager), heldOrder \in HeldOrders(Manager) :
     ValidateConsistencyCall(registryOrder, heldOrder)

SpecValidate == InitQueries /\ [][NextValidate]_vars

ActiveStored == { id \in DOMAIN entities : entities[id].isActive }
Held(id) == DOMAIN entities[id].components
Types(list) == { list[i] : i \in DOMAIN list }
Reversed(list) == [i \in DOMAIN list |-> list[Len(list) + 1 - i]]

(* C22 as claimed: getEntitiesWithComponent(type) returns exactly the active
   stored entities whose id is registered under type, and an empty list when
   no id is registered under type. *)
C22_ByTypeIsActiveRegistered ==
  call.op = "getEntitiesWithComponent"
    => call.ret = { id \in ActiveStored : id \in Registered(call.type) }

(* C22 amended: getEntitiesWithComponent(type) returns exactly the active
   stored entities whose id is registered under type and that hold a
   component of that type, and an empty list when no id is registered under
   type. *)
C22_ByTypeIsActiveRegisteredHolder ==
  call.op = "getEntitiesWithComponent"
    => /\ call.ret = { id \in ActiveStored :
                         id \in Registered(call.type) /\ call.type \in Held(id) }
       /\ Registered(call.type) = {} => call.ret = {}

\* one registered holder was returned while another active stored entity,
\* registered under the type without holding it, was not
C22_Witness ==
  /\ call.op = "getEntitiesWithComponent"
  /\ call.ret # {}
  /\ \E id \in ActiveStored \ call.ret : id \in Registered(call.type)

\* every stored entity is registered under each type it holds
RegistryCoversHolders ==
  \A id \in DOMAIN entities : \A type \in Held(id) : id \in Registered(type)

(* C23 as claimed: in every reachable state, every permutation of the type
   list given to getEntitiesWithComponents returns the same set. *)
C23_AnyPermutationSameResult ==
  call.op = "getEntitiesWithComponents"
    => getEntitiesWithComponents(Manager, Reversed(call.types)) = call.ret

(* C23 amended: getEntitiesWithComponents(T1, ..., Tn) returns the active
   stored entities that hold every listed type and are registered under T1;
   in every state where each stored entity is registered under every type it
   holds, every permutation of the list returns the same set. *)
C23_SeededFromFirstType ==
  call.op = "getEntitiesWithComponents"
    => /\ call.ret = IF Len(call.types) = 0 THEN ActiveStored
                     ELSE { id \in ActiveStored :
                              /\ Types(call.types) \subseteq Held(id)
                              /\ id \in Registered(call.types[1]) }
       /\ RegistryCoversHolders
            => getEntitiesWithComponents(Manager, Reversed(call.types)) = call.ret

\* two different types were asked for of a registry that covers the holders,
\* with a stale extra registration, and an entity came back
C23_Witness ==
  /\ call.op = "getEntitiesWithComponents"
  /\ Len(call.types) = 2 /\ call.types[1] # call.types[2]
  /\ RegistryCoversHolders
  /\ call.ret # {}
  /\ \E id \in QueryIds \ call.ret : id \in Registered(call.types[1])

(* C24: queryEntities({all, any, none}) returns exactly the active stored
   entities that hold every type in all, at least one type in any when any
   is non-empty, and no type in none; an empty clause filters nothing, so
   the empty query returns every active stored entity and no inactive one. *)
C24_QueryEntities ==
  call.op = "queryEntities"
    => /\ call.ret = { id \in ActiveStored :
                         /\ Types(call.query.all) \subseteq Held(id)
                         /\ call.query.any # <<>> => Types(call.query.any) \cap Held(id) # {}
                         /\ Types(call.query.none) \cap Held(id) = {} }
       /\ call.query = [all |-> <<>>, any |-> <<>>, none |-> <<>>]
            => call.ret = ActiveStored

\* a query with the three clauses kept one active entity and dropped another
C24_Witness ==
  /\ call.op = "queryEntities"
  /\ call.query = [all |-> <<"test">>, any |-> <<"test", "another">>, none |-> <<"another">>]
  /\ call.ret # {}
  /\ ActiveStored \ call.ret # {}


(***************************************************************************)
(* The grid's callers: the arguments the model tries.                      *)
(***************************************************************************)
GridPositions == { Pos(x, y) : x \in -1 .. GridW - 1, y \in -1 .. GridH - 1 }
GridSizes == { Size(1, 1), Size(2, 1), Size(1, 2), Size(2, 2) }
TileDatas ==
  { [buildable |-> FALSE], [walkable |-> FALSE], [type |-> "path"],
    [occupiedBy |-> "e2"],
    [type |-> "water", walkable |-> FALSE, buildable |-> FALSE] }

SetTileCall(position, tileData) ==
  /\ gridCalls < MaxGridCalls
  /\ LET r == setTile(tileStore, grids[1], position, tileData)
     IN /\ tileStore' = r.store
        /\ call' = [op |-> "setTile", position |-> position,
                    tileData |-> tileData, ret |-> r.ret]
  /\ gridCalls' = gridCalls + 1
  /\ UNCHANGED <<gameVars, grids, entityVars>>

OccupyAreaCall(position, size, entityId) ==
  /\ gridCalls < MaxGridCalls
  /\ LET r == occupyArea(tileStore, grids[1], position, size, entityId)
     IN /\ tileStore' = r.store
        /\ call' = [op |-> "occupyArea", position |-> position,
                    size |-> size, entityId |-> entityId, ret |-> r.ret]
  /\ gridCalls' = gridCalls + 1
  /\ UNCHANGED <<gameVars, grids, entityVars>>

FreeAreaCall(position, size) ==
  /\ gridCalls < MaxGridCalls
  /\ tileStore' = freeArea(tileStore, grids[1], position, size)
  /\ call' = [op |-> "freeArea", position |-> position, size |-> size]
  /\ gridCalls' = gridCalls + 1
  /\ UNCHANGED <<gameVars, grids, entityVars>>

\* WorldGrid.deserialize(grid.serialize()); the caller keeps the newest copy
DeserializeCall ==
  /\ LET r == deserialize(tileStore, serialize(grids[1]))
     IN /\ tileStore' = r.store
        /\ grids' = <<grids[1], r.grid>>
        /\ call' = [op |-> "deserialize"]
  /\ UNCHANGED <<gameVars, gridCalls, entityVars>>

NextGrid ==
  \/ \E p \in GridPositions, d \in TileDatas : SetTileCall(p, d)
  \/ \E p \in GridPositions, s \in GridSizes, e \in GridEntityIds : OccupyAreaCall(p, s, e)
  \/ \E p \in GridPositions, s \in GridSizes : FreeAreaCall(p, s)

SpecGrid == Init /\ [][NextGrid]_vars

\* the grid is mutated, then serialized and deserialized
NextRoundTrip ==
  \/ Len(grids) = 1 /\ NextGrid
  \/ DeserializeCall

SpecRoundTrip == Init /\ [][NextRoundTrip]_vars

(***************************************************************************)
(* Vocabulary of the grid claims.                                          *)
(***************************************************************************)
Grid == grids[1]
Cells == { Pos(x, y) : x \in 0 .. GridW - 1, y \in 0 .. GridH - 1 }
Rect(position, size) ==
  { Pos(x, y) : x \in { i \in -3 .. GridW + 3 : position.x <= i /\ i < position.x + size.width },
                y \in { j \in -3 .. GridH + 3 : position.y <= j /\ j < position.y + size.height } }
Stored(store, c) == store[Grid.tiles][c.y][c.x]
OtherFields == {"type", "walkable", "buildable"}
SameOtherFields(t1, t2) == \A f \in OtherFields : t1[f] = t2[f]

\* some tile of the rectangle is out of bounds, not buildable or occupied
Unavailable(store, position, size) ==
  \E c \in Rect(position, size) :
     \/ c \notin Cells
     \/ ~Stored(store, c).buildable
     \/ Stored(store, c).occupiedBy # Null

(* C2: an occupyArea whose rectangle has a tile that is out of bounds, not
   buildable or already occupied returns false and changes no tile of the
   grid, inside or outside the rectangle. *)
C2_OccupyFailureChangesNothing ==
  [][ (call'.op = "occupyArea" /\ Unavailable(tileStore, call'.position, call'.size))
        => (call'.ret = FALSE /\ tileStore' = tileStore /\ grids' = grids) ]_vars

\* a refused occupyArea on a grid that already holds an occupant, for each cause
C2_Witness ==
  /\ call.op = "occupyArea" /\ call.ret = FALSE
  /\ \E c \in Rect(call.position, call.size) \cap Cells :
        Stored(tileStore, c).occupiedBy = "e1" /\ call.entityId = "e2"
  /\ \E c \in Rect(call.position, call.size) : c \notin Cells

(* C3: an occupyArea whose rectangle is wholly in bounds, buildable and
   unoccupied returns true; afterwards every tile of the rectangle has the
   entity as occupant and its type, walkable and buildable as before, and
   every tile outside the rectangle is as before. *)
C3_OccupySuccess ==
  [][ (call'.op = "occupyArea" /\ ~Unavailable(tileStore, call'.position, call'.size))
        => /\ call'.ret = TRUE
           /\ grids' = grids
           /\ \A c \in Cells :
                IF c \in Rect(call'.position, call'.size)
                THEN /\ Stored(tileStore', c).occupiedBy = call'.entityId
                     /\ SameOtherFields(Stored(tileStore', c), Stored(tileStore, c))
                ELSE Stored(tileStore', c) = Stored(tileStore, c) ]_vars

\* a two-tile area taken on a grid one of whose other tiles was edited before
C3_Witness ==
  /\ call.op = "occupyArea" /\ call.ret = TRUE /\ call.size = Size(2, 1)
  /\ \A c \in Rect(call.position, call.size) : Stored(tileStore, c).occupiedBy = call.entityId
  /\ \E c \in Cells \ Rect(call.position, call.size) : Stored(tileStore, c) # DefaultTile

(* C4: occupyArea never overwrites an occupant: an occupyArea (for any entity,
   the holder included) whose rectangle contains a tile that has an occupant
   returns false, and after every occupyArea each tile that had an occupant
   still has that occupant. *)
C4_OccupantNeverOverwritten ==
  [][ call'.op = "occupyArea"
        => /\ \A c \in Cells : Stored(tileStore, c).occupiedBy # Null
                 => Stored(tileStore', c).occupiedBy = Stored(tileStore, c).occupiedBy
           /\ (\E c \in Rect(call'.position, call'.size) \cap Cells :
                   Stored(tileStore, c).occupiedBy # Null)
                 => call'.ret = FALSE ]_vars

\* the holder itself is refused on a rectangle overlapping its own tiles
C4_Witness ==
  /\ call.op = "occupyArea" /\ call.ret = FALSE /\ call.entityId = "e1"
  /\ Rect(call.position, call.size) \subseteq Cells
  /\ \E c, d \in Rect(call.position, call.size) :
        /\ Stored(tileStore, c).occupiedBy = "e1"
        /\ Stored(tileStore, d).occupiedBy = Null /\ Stored(tileStore, d).buildable

(* C5: after freeArea every in-bounds tile of the rectangle has no occupant,
   whoever held it; type, walkable and buildable of every tile and every tile
   outside the rectangle are unchanged; cells out of bounds are skipped; and
   a second freeArea of the same rectangle changes nothing. *)
C5_FreeArea ==
  [][ call'.op = "freeArea"
        => /\ grids' = grids
           /\ \A c \in Cells :
                IF c \in Rect(call'.position, call'.size)
                THEN /\ Stored(tileStore', c).occupiedBy = Null
                     /\ SameOtherFields(Stored(tileStore', c), Stored(tileStore, c))
                ELSE Stored(tileStore', c) = Stored(tileStore, c)
           /\ freeArea(tileStore', Grid, call'.position, call'.size) = tileStore' ]_vars

\* a rectangle reaching out of bounds was freed while another tile stays held
C5_Witness ==
  /\ call.op = "freeArea"
  /\ \E c \in Rect(call.position, call.size) : c \notin Cells
  /\ \E c \in Rect(call.position, call.size) \cap Cells : Stored(tileStore, c).occupiedBy = Null
  /\ \E c \in Cells \ Rect(call.position, call.size) : Stored(tileStore, c).occupiedBy # Null

(* C6: the grid deserialized from a grid's serialization has that grid's width
   and height and, at every position, a tile equal in type, occupiedBy,
   walkable and buildable. *)
C6_RoundTrip ==
  call.op = "deserialize"
    => /\ getDimensions(grids[2]) = getDimensions(grids[1])
       /\ \A c \in Cells : getTile(tileStore, grids[2], c) = Stored(tileStore, c)

\* a grid with mixed types, flags and an occupant went through the round trip
C6_Witness ==
  /\ call.op = "deserialize"
  /\ \E c, d \in Cells :
       /\ getTile(tileStore, grids[2], c).type = "water"
       /\ ~getTile(tileStore, grids[2], c).walkable
       /\ getTile(tileStore, grids[2], d).occupiedBy = "e1"
       /\ getTile(tileStore, grids[2], d).type = "grass"

NearPositions == { Pos(x, y) : x \in -1 .. GridW, y \in -1 .. GridH }
OutPositions == NearPositions \ Cells

(* C26: setTile(pos, fields) at an in-bounds position returns true and
   changes only the supplied fields of that one tile: the supplied fields
   take the given values, the other fields of the tile keep theirs, and
   every other tile of the grid is unchanged. *)
C26_SetTileMerges ==
  [][ (call'.op = "setTile" /\ call'.position \in Cells)
        => /\ call'.ret = TRUE
           /\ grids' = grids
           /\ \A c \in Cells :
                IF c = call'.position
                THEN \A f \in DOMAIN DefaultTile :
                       Stored(tileStore', c)[f]
                         = IF f \in DOMAIN call'.tileData
                           THEN call'.tileData[f]
                           ELSE Stored(tileStore, c)[f]
                ELSE Stored(tileStore', c) = Stored(tileStore, c) ]_vars

\* a flag was set on a tile that keeps the occupant it had
C26_Witness ==
  /\ call.op = "setTile" /\ call.ret = TRUE
  /\ call.tileData = [walkable |-> FALSE]
  /\ call.position \in Cells
  /\ Stored(tileStore, call.position).occupiedBy = "e1"
  /\ ~Stored(tileStore, call.position).walkable


(***************************************************************************)
(* The placement queries, asked of grids with a few edited tiles.  Every   *)
(* such grid is reached from the constructed one by setTile calls, which   *)
(* may set any field of any tile.                                          *)
(***************************************************************************)
EditedTiles ==
  { [DefaultTile EXCEPT !.buildable = FALSE],
    [DefaultTile EXCEPT !.occupiedBy = "e1"],
    [DefaultTile EXCEPT !.type = "path", !.walkable = FALSE] }
QueryPositions == { Pos(x, y) : x \in -1 .. GridW, y \in -1 .. GridH }
QuerySizes == GridSizes \cup { Size(0, 1), Size(1, 0) }

InitPlacement ==
  /\ \E edited \in SUBSET Cells :
       /\ Cardinality(edited) <= MaxEditedTiles
       /\ \E kind \in [edited -> EditedTiles] :
            tileStore = <<[y \in 0 .. GridH - 1 |-> [x \in 0 .. GridW - 1 |->
                            IF Pos(x, y) \in edited THEN kind[Pos(x, y)] ELSE DefaultTile]]>>
  /\ grids = <<[width |-> GridW, height |-> GridH, tiles |-> 1]>>
  /\ gridCalls = 0
  /\ InitGame
  /\ call = NoCall

\* a pure query: asked once of each grid
IsPlacementValidCall(position, size) ==
  /\ call = NoCall
  /\ call' = [op |-> "isPlacementValid", position |-> position, size |-> size,
              ret |-> isPlacementValid(tileStore, Grid, position, size)]
  /\ UNCHANGED <<gameVars, gridVars, entityVars>>

NextPlacement ==
  \E p \in QueryPositions, s \in QuerySizes : IsPlacementValidCall(p, s)

InitPlaced == InitEntities /\ InitPlacement
SpecPlacement == InitPlaced /\ [][NextPlacement]_vars

(* C7: isPlacementValid(grid, pos, size) is true exactly when
   isAreaWithinBounds(pos, size, W, H) is true and every tile of the
   rectangle has buildable = true and no occupant. *)
C7_PlacementValidIff ==
  call.op = "isPlacementValid"
    => (call.ret <=>
          /\ isAreaWithinBounds(call.position, call.size, GridW, GridH)
          /\ \A c \in Rect(call.position, call.size) :
                Stored(tileStore, c).buildable /\ Stored(tileStore, c).occupiedBy = Null)

\* a placement in bounds is refused only because one of its tiles is held
C7_Witness ==
  /\ call.op = "isPlacementValid" /\ call.ret = FALSE /\ call.size = Size(2, 2)
  /\ isAreaWithinBounds(call.position, call.size, GridW, GridH)
  /\ Stored(tileStore, call.position) = DefaultTile
  /\ \A c \in Rect(call.position, call.size) : Stored(tileStore, c).buildable

(***************************************************************************)
(* The placement searches, asked once of each grid with a few tiles that   *)
(* are not buildable or are occupied (setTile makes any of them).          *)
(***************************************************************************)
\* the constructed grid with at most MaxEditedTiles tiles replaced by `kinds`
InitEditedWith(kinds) ==
  /\ \E edited \in SUBSET Cells :
       /\ Cardinality(edited) <= MaxEditedTiles
       /\ \E kind \in [edited -> kinds] :
            tileStore = <<[y \in 0 .. GridH - 1 |-> [x \in 0 .. GridW - 1 |->
                            IF Pos(x, y) \in edited THEN kind[Pos(x, y)] ELSE DefaultTile]]>>
  /\ grids = <<[width |-> GridW, height |-> GridH, tiles |-> 1]>>
  /\ gridCalls = 0
  /\ InitGame
  /\ call = NoCall

SearchTiles ==
  { [DefaultTile EXCEPT !.buildable = FALSE], [DefaultTile EXCEPT !.occupiedBy = "e1"] }
MaxDistances == 0 .. MaxSearch

InitSearch == InitEntities /\ InitEditedWith(SearchTiles)

FindValidPlacementPositionsCall(targetPosition, size, maxDistance) ==
  /\ call = NoCall
  /\ call' = [op |-> "findValidPlacementPositions", targetPosition |-> targetPosition,
              size |-> size, maxDistance |-> maxDistance,
              ret |-> findValidPlacementPositions(tileStore, Grid, targetPosition,
                                                  size, maxDistance)]
  /\ UNCHANGED <<gameVars, gridVars, entityVars>>

GetClosestValidPositionCall(targetPosition, size, maxDistance) ==
  /\ call = NoCall
  /\ call' = [op |-> "getClosestValidPosition", targetPosition |-> targetPosition,
              size |-> size, maxDistance |-> maxDistance,
              ret |-> getClosestValidPosition(tileStore, Grid, targetPosition,
                                              size, maxDistance)]
  /\ UNCHANGED <<gameVars, gridVars, entityVars>>

NextSearch ==
  \/ \E t \in NearPositions, s \in GridSizes, d \in MaxDistances :
        FindValidPlacementPositionsCall(t, s, d)
  \/ \E t \in NearPositions, s \in GridSizes, d \in MaxDistances :
        GetClosestValidPositionCall(t, s, d)

SpecSearch == InitSearch /\ [][NextSearch]_vars

\* max(|dx|, |dy|)
Chebyshev(p, q) ==
  IF abs(p.x - q.x) >= abs(p.y - q.y) THEN abs(p.x - q.x) ELSE abs(p.y - q.y)
\* every position a search of the model can look at
SearchPositions ==
  { Pos(x, y) : x \in -(MaxSearch + 1) .. GridW + MaxSearch,
                y \in -(MaxSearch + 1) .. GridH + MaxSearch }
\* the valid positions at distance d from the target of the last call
ValidAt(d) ==
  { p \in SearchPositions :
      /\ Chebyshev(p, call.targetPosition) = d
      /\ isPlacementValid(tileStore, Grid, p, call.size) }
SeqSet(list) == { list[i] : i \in DOMAIN list }

(* C27: findValidPlacementPositions(grid, target, size, maxDistance) returns
   exactly the positions at Chebyshev distance d* from target at which
   isPlacementValid holds, d* being the smallest distance in 1..maxDistance
   with such a position, each of them once; no position at a larger distance
   and never the target; the result is empty exactly when no distance in
   1..maxDistance has a valid position. *)
C27_FirstRingWithHits ==
  call.op = "findValidPlacementPositions"
    => LET hits == { d \in 1 .. call.maxDistance : ValidAt(d) # {} }
       IN /\ hits = {} <=> call.ret = <<>>
          /\ hits # {}
               => LET dstar == CHOOSE d \in hits : \A e \in hits : d <= e
                  IN /\ SeqSet(call.ret) = ValidAt(dstar)
                     /\ Len(call.ret) = Cardinality(ValidAt(dstar))
          /\ call.targetPosition \notin SeqSet(call.ret)

\* the first ring had no valid position and the second one had several
C27_Witness ==
  /\ call.op = "findValidPlacementPositions"
  /\ Len(call.ret) >= 2
  /\ \A i \in DOMAIN call.ret : Chebyshev(call.ret[i], call.targetPosition) = 2
  /\ \E c \in Cells : Chebyshev(c, call.targetPosition) = 1

(* C28: getClosestValidPosition returns null exactly when
   findValidPlacementPositions returns an empty list for the same arguments;
   otherwise it returns the element of that list with the smallest Manhattan
   distance to the target, the first one in the list among those tied, the
   list being in scan order (dx ascending, then dy ascending). *)
C28_ClosestFirstFound ==
  call.op = "getClosestValidPosition"
    => LET list == findValidPlacementPositions(tileStore, Grid, call.targetPosition,
                                               call.size, call.maxDistance)
           far(p) == abs(p.x - call.targetPosition.x) + abs(p.y - call.targetPosition.y)
       IN /\ (call.ret = NullPosition) <=> (list = <<>>)
          /\ \A i, j \in DOMAIN list :
               i < j => \/ list[i].x < list[j].x
                        \/ list[i].x = list[j].x /\ list[i].y < list[j].y
          /\ list # <<>>
               => \E i \in DOMAIN list :
                     /\ call.ret = list[i]
                     /\ \A j \in DOMAIN list : far(list[j]) >= far(list[i])
                     /\ \A j \in 1 .. i - 1 : far(list[j]) > far(list[i])

\* two positions of the list are tied for the smallest distance and the
\* first of them was returned
C28_Witness ==
  /\ call.op = "getClosestValidPosition"
  /\ call.ret # NullPosition
  /\ LET list == findValidPlacementPositions(tileStore, Grid, call.targetPosition,
                                             call.size, call.maxDistance)
     IN \E i, j \in DOMAIN list :
           /\ i < j
           /\ call.ret = list[i]
           /\ manhattan(list[j], call.targetPosition) = manhattan(list[i], call.targetPosition)

(***************************************************************************)
(* The path queries, asked once of each grid with a few tiles that are     *)
(* water or are occupied.  Points are counted in halves, as the line takes *)
(* them.                                                                   *)
(***************************************************************************)
PathTiles ==
  { [DefaultTile EXCEPT !.type = "water", !.walkable = FALSE, !.buildable = FALSE],
    [DefaultTile EXCEPT !.occupiedBy = "e1"] }
PathPoints == { Pos(2 * p.x, 2 * p.y) : p \in NearPositions }
\* the corners of the grid, and the lists of paths a caller hands over
CornerA == Pos(0, 0)
CornerB == Pos(2 * (GridW - 1), 0)
CornerC == Pos(2 * (GridW - 1), 2 * (GridH - 1))
CornerD == Pos(0, 2 * (GridH - 1))
EssentialPaths ==
  { <<>>, << <<CornerA>> >>, << <<CornerA, CornerC>> >>, << <<CornerA, CornerB, CornerC>> >>,
    << <<CornerA, CornerD>>, <<CornerB, CornerC>> >> }

InitPaths == InitEntities /\ InitEditedWith(PathTiles)

IsPathClearCall(startPos, endPos) ==
  /\ call = NoCall
  /\ call' = [op |-> "isPathClear", startPos |-> startPos, endPos |-> endPos,
              ret |-> isPathClear(tileStore, Grid, startPos, endPos)]
  /\ UNCHANGED <<gameVars, gridVars, entityVars>>

WouldBlockEssentialPathsCall(position, size, essentialPaths) ==
  /\ call = NoCall
  /\ LET r == wouldBlockEssentialPaths(tileStore, Grid, position, size, essentialPaths)
     IN /\ tileStore' = r.store
        /\ call' = [op |-> "wouldBlockEssentialPaths", position |-> position,
                    size |-> size, essentialPaths |-> essentialPaths, ret |-> r.ret]
  /\ UNCHANGED <<gameVars, grids, gridCalls, entityVars>>

NextPaths ==
  \/ \E a, b \in PathPoints : IsPathClearCall(a, b)
  \/ \E p \in NearPositions, s \in GridSizes, paths \in EssentialPaths :
        WouldBlockEssentialPathsCall(p, s, paths)

SpecPaths == InitPaths /\ [][NextPaths]_vars

(* C29: isPathClear(grid, start, end) is true if and only if every position
   returned by getLinePositions(start, end), both ends included, is an
   in-bounds tile with walkable = true; a line through an out-of-bounds
   position is not clear; the call changes no tile. *)
C29_PathClearIffLineWalkable ==
  [][ call'.op = "isPathClear"
        => LET line == getLinePositions(call'.startPos, call'.endPos)
           IN /\ call'.ret <=> \A i \in DOMAIN line :
                                 line[i] \in Cells /\ Stored(tileStore, line[i]).walkable
              /\ (\E i \in DOMAIN line : line[i] \notin Cells) => ~call'.ret
              /\ tileStore' = tileStore /\ grids' = grids ]_vars

\* a line inside the grid is not clear because of its first tile alone
C29_Witness ==
  /\ call.op = "isPathClear" /\ call.ret = FALSE
  /\ LET line == getLinePositions(call.startPos, call.endPos)
     IN /\ Len(line) >= 2
        /\ \A i \in DOMAIN line : line[i] \in Cells
        /\ ~Stored(tileStore, line[1]).walkable
        /\ \A i \in 2 .. Len(line) : Stored(tileStore, line[i]).walkable

\* the tile at c is walkable once the footprint is marked on a copy of the grid
WalkableBeside(store, footprint, c) ==
  c \in Cells /\ c \notin footprint /\ Stored(store, c).walkable

\* the leg from a to b is clear on that copy
LegClearBeside(store, footprint, a, b) ==
  LET line == getLinePositions(a, b)
  IN \A i \in DOMAIN line : WalkableBeside(store, footprint, line[i])

\* the legs of a list of paths: pairs of consecutive waypoints
Legs(essentialPaths) ==
  UNION { { <<essentialPaths[k][i], essentialPaths[k][i + 1]>> :
              i \in 1 .. Len(essentialPaths[k]) - 1 } : k \in DOMAIN essentialPaths }

(* C31: wouldBlockEssentialPaths(grid, pos, size, paths) returns true if and
   only if, on a copy of the grid in which every in-bounds footprint tile is
   made non-walkable and non-buildable, isPathClear fails for at least one
   pair of consecutive waypoints of at least one path; it returns false when
   paths is empty or every path has fewer than two waypoints. *)
C31_BlockedIffSomeLegFails ==
  [][ call'.op = "wouldBlockEssentialPaths"
        => LET footprint == Rect(call'.position, call'.size)
               legs      == Legs(call'.essentialPaths)
           IN /\ call'.ret <=> \E leg \in legs :
                                 ~LegClearBeside(tileStore, footprint, leg[1], leg[2])
              /\ (\A k \in DOMAIN call'.essentialPaths :
                     Len(call'.essentialPaths[k]) < 2) => ~call'.ret ]_vars

\* on a grid whose tiles are all walkable, a path of two legs is blocked by
\* its second leg alone
C31_Witness ==
  /\ call.op = "wouldBlockEssentialPaths" /\ call.ret = TRUE
  /\ \A c \in Cells : Stored(tileStore, c).walkable
  /\ \E k \in DOMAIN call.essentialPaths :
       LET path == call.essentialPaths[k]
           footprint == Rect(call.position, call.size)
       IN /\ Len(path) = 3
          /\ LegClearBeside(tileStore, footprint, path[1], path[2])
          /\ ~LegClearBeside(tileStore, footprint, path[2], path[3])

(* C35: whenever wouldBlockEssentialPaths returns true, some leg between
   consecutive waypoints that is clear on the grid itself is not clear once
   the footprint is marked: the line of that leg holds a footprint tile. *)
C35_OnlyBlockingByFootprint ==
  (call.op = "wouldBlockEssentialPaths" /\ call.ret)
    => \E leg \in Legs(call.essentialPaths) :
          LET line == getLinePositions(leg[1], leg[2])
          IN /\ isPathClear(tileStore, Grid, leg[1], leg[2])
             /\ ~LegClearBeside(tileStore, Rect(call.position, call.size), leg[1], leg[2])
             /\ \E i \in DOMAIN line : line[i] \in Rect(call.position, call.size)

(* C30: wouldBlockEssentialPaths never mutates the grid it is given: for
   every position, size (footprints partly or wholly out of bounds too) and
   list of paths, every tile of the grid has the same type, occupant,
   walkable and buildable values after the call as before it. *)
C30_WouldBlockLeavesGrid ==
  [][ call'.op = "wouldBlockEssentialPaths"
        => /\ grids' = grids
           /\ \A c \in Cells : Stored(tileStore', c) = Stored(tileStore, c)
           /\ tileStore' = tileStore ]_vars

\* a footprint partly out of bounds was found to block a path of a grid that
\* holds an occupant
C30_Witness ==
  /\ call.op = "wouldBlockEssentialPaths" /\ call.ret = TRUE
  /\ Rect(call.position, call.size) \cap Cells # {}
  /\ Rect(call.position, call.size) \ Cells # {}
  /\ \E c \in Cells : Stored(tileStore, c).occupiedBy = "e1"
  /\ \A c \in Cells : Stored(tileStore, c).walkable

(***************************************************************************)
(* getLinePositions, applied once to each pair of points with coordinates  *)
(* between -MaxCoord and MaxCoord, whole or half.                          *)
(***************************************************************************)
LinePoints == { Pos(x, y) : x \in -2 * MaxCoord .. 2 * MaxCoord,
                            y \in -2 * MaxCoord .. 2 * MaxCoord }

GetLinePositionsCall(start, end) ==
  /\ call = NoCall
  /\ LET r == runLine(start, end, LineFuel)
     IN call' = [op |-> "getLinePositions", start |-> start, end |-> end,
                 ret |-> r.positions, returned |-> r.done]
  /\ UNCHANGED <<gameVars, gridVars, entityVars>>

NextLine == \E a, b \in LinePoints : GetLinePositionsCall(a, b)

SpecLine == Init /\ [][NextLine]_vars

IsWhole(p) == p.x % 2 = 0 /\ p.y % 2 = 0
\* the whole number k with k <= halves / 2 < k + 1
WholePart(halves) == CHOOSE k \in -(MaxCoord + 2) .. MaxCoord + 2 : 2 * k <= halves /\ halves < 2 * k + 2
Floored(p) == Pos(WholePart(p.x), WholePart(p.y))
Occurrences(seq, p) == Cardinality({ i \in DOMAIN seq : seq[i] = p })
PointSet(seq) == { seq[i] : i \in DOMAIN seq }
Sign(n) == IF n > 0 THEN 1 ELSE IF n < 0 THEN -1 ELSE 0

(* C8 as stated: for integer points a and b, getLinePositions(a, b) and
   getLinePositions(b, a) contain the same set of points, and a and b each
   appear exactly once in each list. *)
C8_SameSetBothWays ==
  (call.op = "getLinePositions" /\ IsWhole(call.start) /\ IsWhole(call.end))
    => LET a == Floored(call.start)
           b == Floored(call.end)
           back == getLinePositions(call.end, call.start)
       IN /\ PointSet(call.ret) = PointSet(back)
          /\ Occurrences(call.ret, a) = 1 /\ Occurrences(call.ret, b) = 1
          /\ Occurrences(back, a) = 1 /\ Occurrences(back, b) = 1

(* C8 amended: for integer points a and b the two lists have the same length,
   the i-th point of getLinePositions(b, a) is a + b minus the i-th point of
   getLinePositions(a, b) (so the two sets are equal on horizontal, vertical
   and exactly diagonal lines), and a and b each appear exactly once in each
   list. *)
C8_ReflectedBothWays ==
  (call.op = "getLinePositions" /\ IsWhole(call.start) /\ IsWhole(call.end))
    => LET a == Floored(call.start)
           b == Floored(call.end)
           back == getLinePositions(call.end, call.start)
       IN /\ Len(back) = Len(call.ret)
          /\ \A i \in DOMAIN back :
                back[i] = Pos(a.x + b.x - call.ret[i].x, a.y + b.y - call.ret[i].y)
          /\ (a.x = b.x \/ a.y = b.y \/ abs(a.x - b.x) = abs(a.y - b.y))
                => PointSet(call.ret) = PointSet(back)
          /\ Occurrences(call.ret, a) = 1 /\ Occurrences(call.ret, b) = 1
          /\ Occurrences(back, a) = 1 /\ Occurrences(back, b) = 1

\* a line that is neither axis-aligned nor diagonal was drawn between whole points
C8_Witness ==
  /\ call.op = "getLinePositions" /\ IsWhole(call.start) /\ IsWhole(call.end)
  /\ abs(WholePart(call.end.x) - WholePart(call.start.x)) = 2
  /\ abs(WholePart(call.end.y) - WholePart(call.start.y)) = 1
  /\ Len(call.ret) = 3

(* C9: getLinePositions terminates; its result starts at floor(start), ends at
   floor(end), holds each endpoint exactly once (one element when they
   coincide), and every two consecutive positions are distinct and differ by
   at most one in x and in y, each step going toward the end point. *)
C9_LineShape ==
  call.op = "getLinePositions"
    => LET a == Floored(call.start)
           b == Floored(call.end)
           r == call.ret
       IN /\ call.returned
          /\ r[1] = a /\ r[Len(r)] = b
          /\ Occurrences(r, a) = 1 /\ Occurrences(r, b) = 1
          /\ (a = b) => Len(r) = 1
          /\ \A i \in 1 .. Len(r) - 1 :
                /\ r[i + 1] # r[i]
                /\ r[i + 1].x - r[i].x \in {0, Sign(b.x - a.x)}
                /\ r[i + 1].y - r[i].y \in {0, Sign(b.y - a.y)}

\* a line between fractional points with negative coordinates, several steps long
C9_Witness ==
  /\ call.op = "getLinePositions" /\ call.returned
  /\ ~IsWhole(call.start) /\ ~IsWhole(call.end)
  /\ call.start.x < 0 /\ call.end.y < 0
  /\ Len(call.ret) >= 4

(***************************************************************************)
(* The grid asked once about positions in and one step around it, on each  *)
(* grid with a few water or occupied tiles.                                *)
(***************************************************************************)
InitBounds == InitEntities /\ InitEditedWith(PathTiles)

GetTileCall(position) ==
  /\ call = NoCall
  /\ call' = [op |-> "getTile", position |-> position,
              ret |-> getTile(tileStore, Grid, position)]
  /\ UNCHANGED <<gameVars, gridVars, entityVars>>

IsWalkableCall(position) ==
  /\ call = NoCall
  /\ call' = [op |-> "isWalkable", position |-> position,
              ret |-> isWalkable(tileStore, Grid, position)]
  /\ UNCHANGED <<gameVars, gridVars, entityVars>>

IsBuildableCall(position) ==
  /\ call = NoCall
  /\ call' = [op |-> "isBuildable", position |-> position,
              ret |-> isBuildable(tileStore, Grid, position)]
  /\ UNCHANGED <<gameVars, gridVars, entityVars>>

IsAreaAvailableCall(position, size) ==
  /\ call = NoCall
  /\ call' = [op |-> "isAreaAvailable", position |-> position, size |-> size,
              ret |-> isAreaAvailable(tileStore, Grid, position, size)]
  /\ UNCHANGED <<gameVars, gridVars, entityVars>>

NextBounds ==
  \/ \E p \in NearPositions : GetTileCall(p)
  \/ \E p \in NearPositions : IsWalkableCall(p)
  \/ \E p \in NearPositions : IsBuildableCall(p)
  \/ \E p \in NearPositions, s \in GridSizes : IsAreaAvailableCall(p, s)
  \/ \E p \in NearPositions, d \in TileDatas : call = NoCall /\ SetTileCall(p, d)
  \/ \E p \in NearPositions, s \in GridSizes, e \in GridEntityIds :
       call = NoCall /\ OccupyAreaCall(p, s, e)

SpecBounds == InitBounds /\ [][NextBounds]_vars

\* some position of the rectangle lies outside the grid
LeavesGrid(position, size) == Rect(position, size) \cap OutPositions # {}

(* C25: for every position outside 0 <= x < width, 0 <= y < height, getTile
   returns none, setTile returns false, isWalkable and isBuildable return
   false, and isAreaAvailable and occupyArea return false for every rectangle
   containing such a position, and no tile is changed. *)
C25_OutOfBoundsIsRefused ==
  [][ /\ (call'.op = "getTile" /\ call'.position \in OutPositions)
          => call'.ret = NullTile
      /\ (call'.op \in {"setTile", "isWalkable", "isBuildable"}
            /\ call'.position \in OutPositions)
          => call'.ret = FALSE
      /\ (call'.op \in {"isAreaAvailable", "occupyArea"}
            /\ LeavesGrid(call'.position, call'.size))
          => call'.ret = FALSE
      /\ (call'.op \in {"getTile", "setTile", "isWalkable", "isBuildable"}
            /\ call'.position \in OutPositions)
          => (tileStore' = tileStore /\ grids' = grids)
      /\ (call'.op \in {"isAreaAvailable", "occupyArea"}
            /\ LeavesGrid(call'.position, call'.size))
          => (tileStore' = tileStore /\ grids' = grids) ]_vars

\* occupyArea was refused for a rectangle anchored in the grid whose tiles
\* inside the grid are all free and buildable, on a grid holding an occupant
C25_Witness ==
  /\ call.op = "occupyArea" /\ call.ret = FALSE
  /\ call.position \in Cells /\ LeavesGrid(call.position, call.size)
  /\ \A c \in Rect(call.position, call.size) \cap Cells :
       isBuildable(tileStore, Grid, c)
  /\ \E c \in Cells : Stored(tileStore, c).occupiedBy # Null

(* C36: for every grid state, position and size with width >= 1 and
   height >= 1, occupyArea(pos, size, e) returns true if and only if
   isPlacementValid(grid, pos, size) was true immediately before the call. *)
C36_OccupyIffPlacementValid ==
  [][ (call'.op = "occupyArea" /\ call'.size.width >= 1 /\ call'.size.height >= 1)
        => (call'.ret <=> isPlacementValid(tileStore, Grid, call'.position, call'.size)) ]_vars

\* an area of two tiles was taken on a grid that holds another occupant
C36_Witness ==
  /\ call.op = "occupyArea" /\ call.ret = TRUE /\ call.entityId = "e2"
  /\ Cardinality(Rect(call.position, call.size)) = 2
  /\ \A c \in Rect(call.position, call.size) : Stored(tileStore, c).occupiedBy = "e2"
  /\ \E c \in Cells : Stored(tileStore, c).occupiedBy = "e1"

(* C37: a successful occupyArea(pos, size, e) followed immediately by
   freeArea(pos, size) restores the grid to its state before the occupyArea
   call: every tile has the same type, occupant, walkable and buildable
   values as before. *)
C37_OccupyThenFreeRestores ==
  [][ (call'.op = "occupyArea" /\ call'.ret)
        => LET freed == freeArea(tileStore', Grid, call'.position, call'.size)
           IN /\ freed = tileStore
              /\ \A c \in Cells : Stored(freed, c) = Stored(tileStore, c) ]_vars

\* an area was taken beside a water tile and a tile of another occupant, and
\* freeing it changes the grid
C37_Witness ==
  /\ call.op = "occupyArea" /\ call.ret = TRUE
  /\ \E c \in Cells : Stored(tileStore, c).occupiedBy = "e1"
  /\ \E c \in Cells : Stored(tileStore, c).type = "water"
  /\ freeArea(tileStore, Grid, call.position, call.size) # tileStore

(***************************************************************************)
(* WorldGrid.deserialize given data of any shape, then read.               *)
(***************************************************************************)
DataTiles == { DefaultTile, [DefaultTile EXCEPT !.type = "water", !.walkable = FALSE] }
DataRow == UNION { [0 .. m - 1 -> DataTiles] : m \in 0 .. GridW }
DataRows == UNION { [0 .. n - 1 -> DataRow] : n \in 0 .. GridH }

\* the parsed data is on the heap; no grid has been made yet
InitData ==
  /\ InitEntities
  /\ \E rows \in DataRows : tileStore = <<rows>>
  /\ grids = <<>>
  /\ gridCalls = 0
  /\ InitGame
  /\ call = NoCall

DeserializeDataCall(width, height) ==
  /\ call = NoCall
  /\ LET data == [width |-> width, height |-> height, tiles |-> 1]
         r    == deserialize(tileStore, data)
     IN /\ tileStore' = r.store
        /\ grids' = <<r.grid>>
        /\ call' = [op |-> "deserialize", data |-> data]
  /\ UNCHANGED <<gameVars, gridCalls, entityVars>>

\* newGrid.getTile(position)
GetTileOfDataCall(position) ==
  /\ call.op = "deserialize"
  /\ call' = IF getTileThrows(tileStore, grids[1], position)
             THEN [op |-> "getTile", position |-> position, threw |-> TRUE]
             ELSE [op |-> "getTile", position |-> position, threw |-> FALSE,
                   ret |-> getTile(tileStore, grids[1], position)]
  /\ UNCHANGED <<gameVars, gridVars, entityVars>>

NextData ==
  \/ \E w \in 1 .. GridW, h \in 1 .. GridH : DeserializeDataCall(w, h)
  \/ \E p \in NearPositions : GetTileOfDataCall(p)

SpecData == InitData /\ [][NextData]_vars

(* C32: for every grid returned by WorldGrid.deserialize every position with
   0 <= x < width and 0 <= y < height has a tile, and a read at any position
   is safe: data whose tiles array is not height rows of width tiles does
   not become a grid. *)
C32_DeserializedGridIsWhole ==
  /\ call.op = "deserialize"
       => \A x \in 0 .. grids[1].width - 1, y \in 0 .. grids[1].height - 1 :
            /\ y \in DOMAIN tileStore[grids[1].tiles]
            /\ x \in DOMAIN tileStore[grids[1].tiles][y]
  /\ call.op = "getTile" => ~call.threw

(***************************************************************************)
(* Game: the loop, the clock and the pause.  A game value g is the record  *)
(* of the fields below; times are whole milliseconds, and currentTime is   *)
(* counted in thousandths of a second so that deltaTime / 1000 stays whole.*)
(***************************************************************************)
Game ==
  [isRunning |-> isRunning, isPaused |-> isPaused, timeScale |-> timeScale,
   currentTime |-> currentTime, lastUpdateTime |-> lastUpdateTime,
   animationFrameId |-> animationFrameId, now |-> now, frames |-> frames,
   frameCount |-> frameCount]

\* the browser hands out a new id and keeps the callback until it fires
requestAnimationFrame(g) ==
  LET id == g.frameCount + 1
  IN [id |-> id, g |-> [g EXCEPT !.frameCount = id, !.frames = @ \cup {id}]]

cancelAnimationFrame(g, id) == [g EXCEPT !.frames = @ \ {id}]

\* update that adds the elapsed time whether the game is paused or not
update_IgnoresPause(g, deltaTime) ==
  [g EXCEPT !.currentTime = @ + deltaTime * g.timeScale]

\* deltaTime in milliseconds
update(g, deltaTime) ==
  IF g.isPaused THEN g
  ELSE [g EXCEPT !.currentTime = @ + deltaTime * g.timeScale]

gameLoop(g) ==
  IF ~g.isRunning THEN g
  ELSE LET deltaTime == g.now - g.lastUpdateTime
           updated   == update([g EXCEPT !.lastUpdateTime = g.now], deltaTime)
           request   == requestAnimationFrame(updated)
       IN [request.g EXCEPT !.animationFrameId = request.id]

\* start reads the clock twice, here and in gameLoop; `elapsed` is the time
\* that passes between the two reads
start(g, elapsed) ==
  gameLoop([g EXCEPT !.isRunning = TRUE, !.lastUpdateTime = g.now,
                     !.now = g.now + elapsed])

stop(g) ==
  LET stopped == [g EXCEPT !.isRunning = FALSE]
  IN IF g.animationFrameId # NoFrame
     THEN [cancelAnimationFrame(stopped, g.animationFrameId) EXCEPT !.animationFrameId = NoFrame]
     ELSE stopped

togglePause(g) == [g EXCEPT !.isPaused = ~@]
pause(g) == [g EXCEPT !.isPaused = TRUE]
resume(g) == [g EXCEPT !.isPaused = FALSE]

setTimeScale(g, scale) ==
  IF scale < 0 THEN [threw |-> TRUE, g |-> g]
  ELSE [threw |-> FALSE, g |-> [g EXCEPT !.timeScale = scale]]

resetTime(g) == [g EXCEPT !.currentTime = 0]

\* the fields of the game become those of g
GameBecomes(g) ==
  /\ isRunning' = g.isRunning
  /\ isPaused' = g.isPaused
  /\ timeScale' = g.timeScale
  /\ currentTime' = g.currentTime
  /\ lastUpdateTime' = g.lastUpdateTime
  /\ animationFrameId' = g.animationFrameId
  /\ now' = g.now
  /\ frames' = g.frames
  /\ frameCount' = g.frameCount

TimeScales == {-1, 0, 1, 2}

StartCall(elapsed) ==
  /\ frameCount < MaxFrames
  /\ now + elapsed <= MaxNow
  /\ GameBecomes(start(Game, elapsed))
  /\ call' = [op |-> "start"]
  /\ UNCHANGED <<entityVars, gridVars>>

StopCall ==
  /\ GameBecomes(stop(Game))
  /\ call' = [op |-> "stop"]
  /\ UNCHANGED <<entityVars, gridVars>>

\* the browser runs the callback registered under id: () => this.gameLoop()
FrameCallback(id) ==
  /\ id \in frames
  /\ isRunning => frameCount < MaxFrames
  /\ GameBecomes(gameLoop([Game EXCEPT !.frames = @ \ {id}]))
  /\ call' = [op |-> "gameLoop", id |-> id, ran |-> isRunning,
              deltaTime |-> now - lastUpdateTime]
  /\ UNCHANGED <<entityVars, gridVars>>

\* real time passes
Tick ==
  /\ now < MaxNow
  /\ now' = now + 1
  /\ call' = [op |-> "tick"]
  /\ UNCHANGED <<isRunning, isPaused, timeScale, currentTime, lastUpdateTime,
                 animationFrameId, frames, frameCount, entityVars, gridVars>>

TogglePauseCall ==
  /\ GameBecomes(togglePause(Game))
  /\ call' = [op |-> "togglePause"]
  /\ UNCHANGED <<entityVars, gridVars>>

PauseCall ==
  /\ GameBecomes(pause(Game))
  /\ call' = [op |-> "pause"]
  /\ UNCHANGED <<entityVars, gridVars>>

ResumeCall ==
  /\ GameBecomes(resume(Game))
  /\ call' = [op |-> "resume"]
  /\ UNCHANGED <<entityVars, gridVars>>

SetTimeScaleCall(scale) ==
  /\ LET r == setTimeScale(Game, scale)
     IN /\ GameBecomes(r.g)
        /\ call' = [op |-> "setTimeScale", scale |-> scale, threw |-> r.threw]
  /\ UNCHANGED <<entityVars, gridVars>>

ResetTimeCall ==
  /\ GameBecomes(resetTime(Game))
  /\ call' = [op |-> "resetTime"]
  /\ UNCHANGED <<entityVars, gridVars>>

NextGame ==
  \/ \E elapsed \in 0 .. 1 : StartCall(elapsed)
  \/ StopCall
  \/ \E id \in frames : FrameCallback(id)
  \/ Tick
  \/ TogglePauseCall
  \/ PauseCall
  \/ ResumeCall
  \/ \E scale \in TimeScales : SetTimeScaleCall(scale)
  \/ ResetTimeCall

SpecGame == Init /\ [][NextGame]_vars

(* C33: while the game is paused, a frame callback leaves currentTime as it
   was, whatever real time elapsed since the last frame; a frame callback of
   a running game that is not paused adds the elapsed time, scaled by
   timeScale, to currentTime. *)
C33_PausedFramesKeepTime ==
  [][ call'.op = "gameLoop"
        => /\ isPaused => currentTime' = currentTime
           /\ (~isPaused /\ isRunning)
                => currentTime' = currentTime + (now - lastUpdateTime) * timeScale ]_vars

\* a frame ran on a paused, running game after real time had passed, and the
\* game had already advanced before the pause
C33_Witness ==
  /\ call.op = "gameLoop" /\ call.ran /\ call.deltaTime > 0
  /\ isPaused /\ timeScale > 0 /\ currentTime > 0

(* C40: at most one gameLoop callback is pending at any time, whatever the
   sequence of start(), stop() and frames, and after stop() none is
   pending. *)
C40_AtMostOneFramePending ==
  /\ Cardinality(frames) <= 1
  /\ call.op = "stop" => frames = {}

(***************************************************************************)
(* getClosestValidPosition on a grid of TallW by TallH tiles, some of them *)
(* not buildable, with targets up to two steps outside it.                 *)
(***************************************************************************)
TallCells == { Pos(x, y) : x \in 0 .. TallW - 1, y \in 0 .. TallH - 1 }
TallTargets == { Pos(x, y) : x \in -2 .. TallW + 1, y \in -2 .. TallH + 1 }

InitTall ==
  /\ InitEntities
  /\ \E edited \in SUBSET TallCells :
       /\ Cardinality(edited) <= MaxEditedTiles
       /\ tileStore = <<[y \in 0 .. TallH - 1 |-> [x \in 0 .. TallW - 1 |->
                          IF Pos(x, y) \in edited
                          THEN [DefaultTile EXCEPT !.buildable = FALSE]
                          ELSE DefaultTile]]>>
  /\ grids = <<[width |-> TallW, height |-> TallH, tiles |-> 1]>>
  /\ gridCalls = 0
  /\ InitGame
  /\ call = NoCall

NextTall ==
  \E t \in TallTargets, s \in GridSizes, d \in 0 .. MaxReach :
     GetClosestValidPositionCall(t, s, d)

SpecTall == InitTall /\ [][NextTall]_vars

\* the valid placements of the last call's size within its range, the target
\* itself left out
ValidInRange ==
  { p \in TallCells :
      /\ p # call.targetPosition
      /\ Chebyshev(p, call.targetPosition) <= call.maxDistance
      /\ isPlacementValid(tileStore, Grid, p, call.size) }

(* C34: whenever a position other than the target within Chebyshev distance
   maxDistance is a valid placement, getClosestValidPosition returns a valid
   placement whose Manhattan distance to the target is minimal among the
   valid placements within that range. *)
C34_ClosestIsNearestInRange ==
  (call.op = "getClosestValidPosition" /\ ValidInRange # {})
    => /\ call.ret \in ValidInRange
       /\ \A q \in ValidInRange :
            manhattan(call.ret, call.targetPosition) <= manhattan(q, call.targetPosition)

(***************************************************************************)
(* A grid and the grid made from its serialized form, one of them then     *)
(* mutated.                                                                *)
(***************************************************************************)
InitCopies == InitEntities /\ InitEditedWith(PathTiles)

\* const copy = WorldGrid.deserialize(grid.serialize())
DeserializeOnceCall ==
  /\ call = NoCall
  /\ DeserializeCall

SetTileOnCall(g, position, tileData) ==
  /\ call.op = "deserialize"
  /\ LET r == setTile(tileStore, grids[g], position, tileData)
     IN /\ tileStore' = r.store
        /\ call' = [op |-> "setTile", grid |-> g, position |-> position,
                    tileData |-> tileData, ret |-> r.ret]
  /\ UNCHANGED <<gameVars, grids, gridCalls, entityVars>>

OccupyAreaOnCall(g, position, size, entityId) ==
  /\ call.op = "deserialize"
  /\ LET r == occupyArea(tileStore, grids[g], position, size, entityId)
     IN /\ tileStore' = r.store
        /\ call' = [op |-> "occupyArea", grid |-> g, position |-> position,
                    size |-> size, entityId |-> entityId, ret |-> r.ret]
  /\ UNCHANGED <<gameVars, grids, gridCalls, entityVars>>

FreeAreaOnCall(g, position, size) ==
  /\ call.op = "deserialize"
  /\ tileStore' = freeArea(tileStore, grids[g], position, size)
  /\ call' = [op |-> "freeArea", grid |-> g, position |-> position, size |-> size]
  /\ UNCHANGED <<gameVars, grids, gridCalls, entityVars>>

NextCopies ==
  \/ DeserializeOnceCall
  \/ \E g \in 1 .. 2, p \in NearPositions, d \in TileDatas : SetTileOnCall(g, p, d)
  \/ \E g \in 1 .. 2, p \in NearPositions, s \in GridSizes, e \in GridEntityIds :
       OccupyAreaOnCall(g, p, s, e)
  \/ \E g \in 1 .. 2, p \in NearPositions, s \in GridSizes : FreeAreaOnCall(g, p, s)

SpecCopies == InitCopies /\ [][NextCopies]_vars

(* C38: a grid obtained by WorldGrid.deserialize(g.serialize()) is independent
   of g: a setTile, occupyArea or freeArea on either of the two grids changes
   no tile observed through the other. *)
C38_CopyIsIndependent ==
  [][ call'.op \in {"setTile", "occupyArea", "freeArea"}
        => LET other == grids[3 - call'.grid]
           IN \A c \in Cells : getTile(tileStore', other, c) = getTile(tileStore, other, c) ]_vars

(***************************************************************************)
(* The manager driven by its four calls alone, every entity created under  *)
(* an id the store does not hold.                                          *)
(***************************************************************************)
FreshCreateEntityCall(id) ==
  /\ getEntity(Manager, createEntity(Manager, id, generated).ret.id) = NoEntity
  /\ CreateEntityCall(id)

NextFresh ==
  \/ \E id \in KnownIds \cup {Null, ""} : FreshCreateEntityCall(id)
  \/ \E id \in KnownIds : RemoveEntityCall(id)
  \/ \E id \in KnownIds, c \in Components : AddComponentToEntityCall(id, c)
  \/ \E id \in KnownIds, t \in ComponentTypes : RemoveComponentFromEntityCall(id, t)

SpecFresh == Init /\ [][NextFresh]_vars

AllOf(types) == [all |-> types, any |-> <<>>, none |-> <<>>]

(* C39: in every state reached using only createEntity with fresh ids,
   addComponentToEntity, removeComponentFromEntity and removeEntity, for
   every non-empty type list getEntitiesWithComponents(T1, ..., Tn) returns
   the same set of entities as queryEntities({all: [T1, ..., Tn]}). *)
C39_IndexQueryIsScanQuery ==
  \A types \in TypeLists \ {<<>>} :
     getEntitiesWithComponents(Manager, types) = queryEntities(Manager, AllOf(types))

\* two entities share a type, one of them holds a second type, and the query
\* for both types returns that one alone
C39_Witness ==
  \E t, u \in ComponentTypes :
     /\ t # u
     /\ Cardinality(getEntitiesWithComponents(Manager, <<t>>)) = 2
     /\ Cardinality(getEntitiesWithComponents(Manager, <<t, u>>)) = 1
     /\ Cardinality(queryEntities(Manager, AllOf(<<u, t>>))) = 1

====
